---------------------------- MODULE Spec2Model ----------------------------
(***************************************************************************)
(* A model of r6_analyzer.py: the record loader, the three extractors, the *)
(* aggregation done by main(), the ranking functions and the report.       *)
(*                                                                         *)
(* Text is a sequence of one-character strings, so that str.strip() and    *)
(* str.lower() are computed and not assumed. A number that pandas holds as *)
(* a float quotient is an exact fraction [n, d] in lowest terms; pd.NA is  *)
(* the fraction with d = 0. A DataFrame is [columns, rows]: pd.DataFrame() *)
(* has no columns and no rows.                                             *)
(*                                                                         *)
(* Spec is a run of main(); SpecRerun is two runs in one session;          *)
(* SpecExtract is one call of an extractor on a file's content; SpecRank   *)
(* is one call of a ranking function on an aggregate.                      *)
(***************************************************************************)
EXTENDS Integers, Sequences, FiniteSets, TLC

(***************************************************************************)
(* Bounds of the model.                                                    *)
(***************************************************************************)
MaxEntries == 2
MaxThreshold == 2
MaxTopN == 2
MaxRows == 3

(***************************************************************************)
(* Text.                                                                   *)
(***************************************************************************)
UpperChars == <<"A","B","C","D","E","F","G","H","I","J","K","L","M",
                "N","O","P","Q","R","S","T","U","V","W","X","Y","Z">>
LowerChars == <<"a","b","c","d","e","f","g","h","i","j","k","l","m",
                "n","o","p","q","r","s","t","u","v","w","x","y","z">>
Chars == {" "} \cup {UpperChars[i] : i \in 1..26} \cup {LowerChars[i] : i \in 1..26}

CharCode == [c \in Chars |->
               IF c = " " THEN 32
               ELSE IF \E i \in 1..26 : UpperChars[i] = c
                    THEN 64 + (CHOOSE i \in 1..26 : UpperChars[i] = c)
                    ELSE 96 + (CHOOSE i \in 1..26 : LowerChars[i] = c)]

LowerOf == [c \in Chars |->
              IF \E i \in 1..26 : UpperChars[i] = c
              THEN LowerChars[CHOOSE i \in 1..26 : UpperChars[i] = c]
              ELSE c]

IsSpace(c) == c = " "

\* str.lower()
str_lower(s) == [i \in 1..Len(s) |-> LowerOf[s[i]]]

RECURSIVE lstrip(_)
lstrip(s) == IF s # <<>> /\ IsSpace(Head(s)) THEN lstrip(Tail(s)) ELSE s

RECURSIVE rstrip(_)
rstrip(s) == IF s # <<>> /\ IsSpace(s[Len(s)])
             THEN rstrip(SubSeq(s, 1, Len(s) - 1)) ELSE s

\* str.strip()
str_strip(s) == rstrip(lstrip(s))

\* The order of Python's str comparison (by code point), used by groupby's sort.
RECURSIVE StrLess(_, _)
StrLess(a, b) ==
    IF b = <<>> THEN FALSE
    ELSE IF a = <<>> THEN TRUE
    ELSE IF CharCode[Head(a)] # CharCode[Head(b)]
         THEN CharCode[Head(a)] < CharCode[Head(b)]
         ELSE StrLess(Tail(a), Tail(b))

\* Tuples of text, compared as pandas compares the keys of a groupby.
RECURSIVE KeyLess(_, _)
KeyLess(a, b) ==
    IF a = <<>> \/ b = <<>> THEN FALSE
    ELSE IF Head(a) # Head(b) THEN StrLess(Head(a), Head(b))
         ELSE KeyLess(Tail(a), Tail(b))

S_unknown  == <<"u","n","k","n","o","w","n">>
S_Unknown  == <<"U","n","k","n","o","w","n">>
S_UNKNOWN  == <<"U","N","K","N","O","W","N">>
S_attacker == <<"a","t","t","a","c","k","e","r">>
S_defender == <<"d","e","f","e","n","d","e","r">>
S_all      == <<"a","l","l">>
S_Ash      == <<"A","s","h">>
S_IQ       == <<"I","Q">>
S_Bank     == <<"B","a","n","k">>
S_Oregon   == <<"O","r","e","g","o","n">>
S_Equipe   == <<"E","q","u","i","p","e">>
P_A        == <<"A">>
P_B        == <<"B">>

(***************************************************************************)
(* Numbers: exact fractions.                                               *)
(***************************************************************************)
RECURSIVE GCD(_, _)
GCD(a, b) == IF b = 0 THEN a ELSE GCD(b, a % b)

\* n / d for d > 0, in lowest terms
Ratio(n, d) == LET g == GCD(n, d) IN [n |-> n \div g, d |-> d \div g]
FromInt(v) == [n |-> v, d |-> 1]
Zero == FromInt(0)
\* pd.NA
NA == [n |-> 0, d |-> 0]
IsNA(q) == q.d = 0
RatLess(p, q) == p.n * q.d < q.n * p.d
RatLE(p, q) == p.n * q.d <= q.n * p.d

(***************************************************************************)
(* Raw records (the JSON of the three files).                              *)
(***************************************************************************)
\* Python's None, where a number is expected
NoneValue == -1

\* A key of a JSON object that holds text: present with a value, or absent.
Absent == [present |-> FALSE, val |-> <<>>]
Text(s) == [present |-> TRUE, val |-> s]
\* dict.get(key, default)
dict_get(opt, default) == IF opt.present THEN opt.val ELSE default

\* One entry of a "stats" object: the key is absent, or holds null, {} ,
\* an object without "value", {"value": null} or {"value": n}.
StatKinds == {"absent", "null", "empty", "novalue", "nullvalue", "value"}
StatAbsent == [kind |-> "absent", value |-> NoneValue]
StatNull == [kind |-> "null", value |-> NoneValue]
StatEmpty == [kind |-> "empty", value |-> NoneValue]
StatNoValue == [kind |-> "novalue", value |-> NoneValue]
StatNullValue == [kind |-> "nullvalue", value |-> NoneValue]
Stat(v) == [kind |-> "value", value |-> v]

StatKeys == {"matchesPlayed", "matchesWon", "matchesLost", "winPercentage",
             "kills", "deaths", "kdRatio"}

\* stats.get(key): None when the key is absent or holds null
stats_get(stats, key) == stats[key]
\* bool(sub): None and {} are falsy
Truthy(sub) == sub.kind \notin {"absent", "null", "empty"}
\* sub.get("value")
sub_get_value(sub) == IF sub.kind = "value" THEN sub.value ELSE NoneValue


(***************************************************************************)
(* DataFrames.                                                             *)
(***************************************************************************)
DataFrame(cols, rws) == [columns |-> IF rws = <<>> THEN {} ELSE cols, rows |-> rws]
\* pd.DataFrame()
EmptyDataFrame == [columns |-> {}, rows |-> <<>>]
\* df.empty
empty(df) == df.rows = <<>> \/ df.columns = {}

RECURSIVE concat_rows(_)
concat_rows(dfs) == IF dfs = <<>> THEN <<>> ELSE Head(dfs).rows \o concat_rows(Tail(dfs))

\* pd.concat(dfs, ignore_index=True)
pd_concat(dfs) ==
    [columns |-> UNION {dfs[i].columns : i \in 1..Len(dfs)}, rows |-> concat_rows(dfs)]

OverviewColumns == {"player", "matchesPlayed", "matchesWon", "matchesLost",
                    "winPct", "kills", "deaths", "kdRatio"}
MapColumns == {"player", "mapName", "matchesPlayed", "matchesWon", "winPct",
               "kills", "deaths", "kdRatio"}
OperatorColumns == {"player", "operatorName", "side", "matchesPlayed", "matchesWon",
                    "winPct", "kills", "deaths", "kdRatio"}

(***************************************************************************)
(* The extractors.                                                         *)
(***************************************************************************)
\* get_stat of parse_overview_to_df
get_stat_overview_NoNullCheck(stats, key) ==
    LET entry == stats_get(stats, key)
    IN  IF Truthy(entry) THEN sub_get_value(entry) ELSE 0

get_stat_overview(stats, key) ==
    LET entry == stats_get(stats, key)
    IN  IF Truthy(entry) /\ sub_get_value(entry) # NoneValue
        THEN sub_get_value(entry) ELSE 0

\* get_stat of parse_maps_to_df
get_stat_maps(stats, key) ==
    LET sub == stats_get(stats, key)
    IN  IF Truthy(sub) /\ sub_get_value(sub) # NoneValue
        THEN sub_get_value(sub) ELSE 0

\* get_stat of parse_operators_to_df
get_stat_ops(stats, key) ==
    LET sub == stats_get(stats, key)
    IN  IF Truthy(sub) /\ sub_get_value(sub) # NoneValue
        THEN sub_get_value(sub) ELSE 0

\* The first segment whose type is "overview": its index, or 0.
RECURSIVE find_overview_segment_Last(_, _)
find_overview_segment_Last(segments, i) ==
    IF i > Len(segments) THEN 0
    ELSE IF find_overview_segment_Last(segments, i + 1) # 0
         THEN find_overview_segment_Last(segments, i + 1)
         ELSE IF segments[i].type = "overview" THEN i ELSE 0

RECURSIVE find_overview_segment(_, _)
find_overview_segment(segments, i) ==
    IF i > Len(segments) THEN 0
    ELSE IF segments[i].type = "overview" THEN i
         ELSE find_overview_segment(segments, i + 1)

overview_row(stats, player_name) ==
    [player        |-> player_name,
     matchesPlayed |-> get_stat_overview(stats, "matchesPlayed"),
     matchesWon    |-> get_stat_overview(stats, "matchesWon"),
     matchesLost   |-> get_stat_overview(stats, "matchesLost"),
     winPct        |-> FromInt(get_stat_overview(stats, "winPercentage")),
     kills         |-> get_stat_overview(stats, "kills"),
     deaths        |-> get_stat_overview(stats, "deaths"),
     kdRatio       |-> FromInt(get_stat_overview(stats, "kdRatio"))]

parse_overview_to_df(overview_json, player_name) ==
    LET i == find_overview_segment(overview_json.segments, 1)
    IN  IF i = 0 THEN EmptyDataFrame
        ELSE DataFrame(OverviewColumns,
                       <<overview_row(overview_json.segments[i].stats, player_name)>>)

\* The keys of a stats object that start with "playstyle", in the order the
\* tracker writes them
PlaystyleKeys ==
    <<"playstyleAttackerBreacher", "playstyleAttackerEntryFragger",
      "playstyleDefenderAnchor">>

\* An entry of a playstyle: its displayName and the usage.value of its metadata
Playstyle(display_name, percent) ==
    [displayName |-> display_name,
     metadata |-> [usage |-> [present |-> TRUE, val |-> percent]]]

\* playstyles.sort(key=lambda x: x[1], reverse=True): pairs with the same
\* usage keep their order
RECURSIVE sort_playstyles(_)
sort_playstyles(pairs) ==
    IF pairs = <<>> THEN <<>>
    ELSE LET sorted == sort_playstyles(SubSeq(pairs, 1, Len(pairs) - 1))
             pair == pairs[Len(pairs)]
             ahead == {i \in 1..Len(sorted) : sorted[i][2] >= pair[2]}
         IN  SubSeq(sorted, 1, Cardinality(ahead)) \o <<pair>>
             \o SubSeq(sorted, Cardinality(ahead) + 1, Len(sorted))

\* for key, entry in stats.items(): if key.startswith("playstyle")
RECURSIVE playstyle_pairs(_, _)
playstyle_pairs(stats, i) ==
    IF i > Len(PlaystyleKeys) THEN <<>>
    ELSE (IF PlaystyleKeys[i] \in DOMAIN stats
          THEN <<<<stats[PlaystyleKeys[i]].displayName,
                   dict_get(stats[PlaystyleKeys[i]].metadata.usage, 0)>>>>
          ELSE <<>>)
         \o playstyle_pairs(stats, i + 1)

\* extract_playstyles taking the first segment, whatever its type
extract_playstyles_FirstSegment(overview_json) ==
    IF overview_json.segments = <<>> THEN <<>>
    ELSE sort_playstyles(playstyle_pairs(overview_json.segments[1].stats, 1))

\* The playstyles of the first "overview" segment, from the most used down
extract_playstyles(overview_json) ==
    LET i == find_overview_segment(overview_json.segments, 1)
    IN  IF i = 0 THEN <<>>
        ELSE sort_playstyles(playstyle_pairs(overview_json.segments[i].stats, 1))

map_name_of(entry) ==
    dict_get(entry.metadata.mapName, dict_get(entry.attributes.map, S_Unknown))

map_row(entry, player_name) ==
    [player        |-> player_name,
     mapName       |-> map_name_of(entry),
     matchesPlayed |-> get_stat_maps(entry.stats, "matchesPlayed"),
     matchesWon    |-> get_stat_maps(entry.stats, "matchesWon"),
     winPct        |-> FromInt(get_stat_maps(entry.stats, "winPercentage")),
     kills         |-> get_stat_maps(entry.stats, "kills"),
     deaths        |-> get_stat_maps(entry.stats, "deaths"),
     kdRatio       |-> FromInt(get_stat_maps(entry.stats, "kdRatio"))]

parse_maps_to_df(maps_json, player_name) ==
    DataFrame(MapColumns, [i \in 1..Len(maps_json) |-> map_row(maps_json[i], player_name)])

op_name_of(entry) ==
    str_strip(dict_get(entry.metadata.operatorName,
                       dict_get(entry.attributes.operator, <<>>)))

side_of(entry) == dict_get(entry.attributes.side, S_all)

\* the filter: not op_name or op_name.lower() == "unknown"
is_unknown_operator_CaseSensitive(op_name) == op_name = <<>> \/ op_name = S_Unknown

is_unknown_operator(op_name) == op_name = <<>> \/ str_lower(op_name) = S_unknown

operator_row(entry, player_name) ==
    [player        |-> player_name,
     operatorName  |-> op_name_of(entry),
     side          |-> side_of(entry),
     matchesPlayed |-> get_stat_ops(entry.stats, "matchesPlayed"),
     matchesWon    |-> get_stat_ops(entry.stats, "matchesWon"),
     winPct        |-> FromInt(get_stat_ops(entry.stats, "winPercentage")),
     kills         |-> get_stat_ops(entry.stats, "kills"),
     deaths        |-> get_stat_ops(entry.stats, "deaths"),
     kdRatio       |-> FromInt(get_stat_ops(entry.stats, "kdRatio"))]

RECURSIVE operator_rows(_, _)
operator_rows(ops_json, player_name) ==
    IF ops_json = <<>> THEN <<>>
    ELSE IF is_unknown_operator(op_name_of(Head(ops_json)))
         THEN operator_rows(Tail(ops_json), player_name)
         ELSE <<operator_row(Head(ops_json), player_name)>>
              \o operator_rows(Tail(ops_json), player_name)

parse_operators_to_df(ops_json, player_name) ==
    DataFrame(OperatorColumns, operator_rows(ops_json, player_name))

(***************************************************************************)
(* pandas: column sums, groupby, sort_values, head.                        *)
(***************************************************************************)
RECURSIVE col_sum(_, _)
col_sum(rws, col) == IF rws = <<>> THEN 0 ELSE Head(rws)[col] + col_sum(Tail(rws), col)

\* The key of a row under groupby(keycols)
key_of(row, keycols) == [i \in 1..Len(keycols) |-> row[keycols[i]]]

RECURSIVE insert_key(_, _)
insert_key(keys, key) ==
    IF keys = <<>> THEN <<key>>
    ELSE IF Head(keys) = key THEN keys
    ELSE IF KeyLess(key, Head(keys)) THEN <<key>> \o keys
    ELSE <<Head(keys)>> \o insert_key(Tail(keys), key)

\* The distinct keys of the rows, in ascending order (groupby sorts its keys).
RECURSIVE group_keys(_, _)
group_keys(rws, keycols) ==
    IF rws = <<>> THEN <<>>
    ELSE insert_key(group_keys(SubSeq(rws, 1, Len(rws) - 1), keycols),
                    key_of(rws[Len(rws)], keycols))

\* The rows of one group, in the order of the frame
RECURSIVE group_rows(_, _, _)
group_rows(rws, keycols, key) ==
    IF rws = <<>> THEN <<>>
    ELSE IF key_of(Head(rws), keycols) = key
         THEN <<Head(rws)>> \o group_rows(Tail(rws), keycols, key)
         ELSE group_rows(Tail(rws), keycols, key)

\* The sort key of a row: a count or a quotient, both as fractions
sort_value(row, col) ==
    IF col \in {"matchesPlayed", "matchesWon", "kills", "deaths"}
    THEN FromInt(row[col]) ELSE row[col]

\* Whether a row with key p goes before one with key q (NA goes last)
goes_before(p, q, ascending) ==
    IF IsNA(p) THEN FALSE
    ELSE IF IsNA(q) THEN TRUE
    ELSE IF ascending THEN RatLess(p, q) ELSE RatLess(q, p)

RECURSIVE insert_sorted(_, _, _, _)
insert_sorted(sorted, row, col, ascending) ==
    IF sorted = <<>> THEN <<row>>
    ELSE IF goes_before(sort_value(row, col), sort_value(Head(sorted), col), ascending)
         THEN <<row>> \o sorted
         ELSE <<Head(sorted)>> \o insert_sorted(Tail(sorted), row, col, ascending)

\* df.sort_values(col, ascending=...): equal keys keep the order of the frame
RECURSIVE sort_rows(_, _, _)
sort_rows(rws, col, ascending) ==
    IF rws = <<>> THEN <<>>
    ELSE insert_sorted(sort_rows(SubSeq(rws, 1, Len(rws) - 1), col, ascending),
                       rws[Len(rws)], col, ascending)

sort_values(df, col, ascending) ==
    [columns |-> df.columns, rows |-> sort_rows(df.rows, col, ascending)]

\* df.head(n) that keeps every row
head_NoLimit(df, n) == df

\* df.head(n)
head(df, n) ==
    [columns |-> df.columns,
     rows |-> SubSeq(df.rows, 1, IF n < Len(df.rows) THEN n ELSE Len(df.rows))]

RECURSIVE select_rows(_, _, _)
select_rows(rws, col, minimum) ==
    IF rws = <<>> THEN <<>>
    ELSE IF Head(rws)[col] >= minimum
         THEN <<Head(rws)>> \o select_rows(Tail(rws), col, minimum)
         ELSE select_rows(Tail(rws), col, minimum)

\* df[df[col] >= minimum]
at_least_Strict(df, col, minimum) ==
    [columns |-> df.columns, rows |-> select_rows(df.rows, col, minimum + 1)]

at_least(df, col, minimum) ==
    [columns |-> df.columns, rows |-> select_rows(df.rows, col, minimum)]

RECURSIVE rows_of_player(_, _)
rows_of_player(rws, player_name) ==
    IF rws = <<>> THEN <<>>
    ELSE IF Head(rws).player = player_name
         THEN <<Head(rws)>> \o rows_of_player(Tail(rws), player_name)
         ELSE rows_of_player(Tail(rws), player_name)

\* df[df["player"] == player]
of_player(df, player_name) ==
    [columns |-> df.columns, rows |-> rows_of_player(df.rows, player_name)]

(***************************************************************************)
(* The aggregation of main().                                              *)
(***************************************************************************)
\* (won / played * 100) if played > 0 else 0
percent_or_zero_Inverted(won, played) ==
    IF won > 0 THEN Ratio(played * 100, won) ELSE Zero

percent_or_zero(won, played) ==
    IF played > 0 THEN Ratio(won * 100, played) ELSE Zero

\* (kills / deaths) if deaths > 0 else 0
ratio_or_zero_DeathsAtLeastOne(kills, deaths) ==
    IF deaths > 0 THEN Ratio(kills, deaths) ELSE FromInt(kills)

ratio_or_zero(kills, deaths) ==
    IF deaths > 0 THEN Ratio(kills, deaths) ELSE Zero

\* matchesPlayed - matchesWon
matches_lost_Swapped(played, won) == won - played

matches_lost(played, won) == played - won

\* kills / matchesPlayed with the guard of kdRatio: 0 without matches
kills_per_match_ZeroGuard(kills, played) ==
    IF played = 0 THEN Zero ELSE Ratio(kills, played)

\* kills / matchesPlayed.replace(0, pd.NA)
kills_per_match(kills, played) ==
    IF played = 0 THEN NA ELSE Ratio(kills, played)

\* row["kills"] / row["matchesPlayed"] of one row: a quotient, and with no
\* match a figure that is no number (inf or nan of numpy, with a warning)
true_divide(kills, played) ==
    IF played = 0 THEN [n |-> kills, d |-> 0] ELSE Ratio(kills, played)

\* 7.4.1: the team's overview total
equipe_agg(rws) ==
    LET played == col_sum(rws, "matchesPlayed")
        won    == col_sum(rws, "matchesWon")
        kills  == col_sum(rws, "kills")
        deaths == col_sum(rws, "deaths")
    IN  [player        |-> S_Equipe,
         matchesPlayed |-> played,
         matchesWon    |-> won,
         matchesLost   |-> col_sum(rws, "matchesLost"),
         kills         |-> kills,
         deaths        |-> deaths,
         winPct        |-> percent_or_zero(won, played),
         kdRatio       |-> ratio_or_zero(kills, deaths)]

overview_equipe(overview) ==
    IF ~empty(overview) THEN DataFrame(OverviewColumns, <<equipe_agg(overview.rows)>>)
    ELSE EmptyDataFrame

\* The columns every groupby(...).agg(sum) of main() is given afterwards
agg_fields_SumWinPct(grp) ==
    LET played == col_sum(grp, "matchesPlayed")
        won    == col_sum(grp, "matchesWon")
        kills  == col_sum(grp, "kills")
        deaths == col_sum(grp, "deaths")
    IN  [matchesPlayed |-> played,
         matchesWon    |-> won,
         kills         |-> kills,
         deaths        |-> deaths,
         matchesLost   |-> matches_lost(played, won),
         winPct        |-> FromInt(col_sum([i \in 1..Len(grp) |-> [v |-> grp[i].winPct.n]], "v")),
         kdRatio       |-> ratio_or_zero(kills, deaths)]

agg_fields(grp) ==
    LET played == col_sum(grp, "matchesPlayed")
        won    == col_sum(grp, "matchesWon")
        kills  == col_sum(grp, "kills")
        deaths == col_sum(grp, "deaths")
    IN  [matchesPlayed |-> played,
         matchesWon    |-> won,
         kills         |-> kills,
         deaths        |-> deaths,
         matchesLost   |-> matches_lost(played, won),
         winPct        |-> percent_or_zero(won, played),
         kdRatio       |-> ratio_or_zero(kills, deaths)]

MapAggColumns == {"mapName", "matchesPlayed", "matchesWon", "kills", "deaths",
                  "matchesLost", "winPct", "kdRatio"}
TeamAggColumns == {"operatorName", "side", "matchesPlayed", "matchesWon", "kills",
                   "deaths", "matchesLost", "winPct", "kdRatio", "killsPerMatch"}
PlayerAggColumns == TeamAggColumns \cup {"player"}
SideColumns == {"side", "matchesPlayed", "matchesWon", "matchesLost", "winPctSide"}

\* 7.4.2: maps_df.groupby("mapName")
aggregate_maps(maps) ==
    IF ~empty(maps)
    THEN LET keys == group_keys(maps.rows, <<"mapName">>)
         IN  DataFrame(MapAggColumns,
               [i \in 1..Len(keys) |->
                  [mapName |-> keys[i][1]]
                  @@ agg_fields(group_rows(maps.rows, <<"mapName">>, keys[i]))])
    ELSE EmptyDataFrame

\* 7.4.3: ops_df.groupby(["operatorName", "side"])
aggregate_ops_team(ops) ==
    IF ~empty(ops)
    THEN LET keycols == <<"operatorName", "side">>
             keys == group_keys(ops.rows, keycols)
         IN  DataFrame(TeamAggColumns,
               [i \in 1..Len(keys) |->
                  LET f == agg_fields(group_rows(ops.rows, keycols, keys[i]))
                  IN  [operatorName |-> keys[i][1], side |-> keys[i][2],
                       killsPerMatch |-> kills_per_match(f.kills, f.matchesPlayed)] @@ f])
    ELSE EmptyDataFrame

\* 7.4.3: ops_df.groupby(["player", "operatorName", "side"])
aggregate_ops_player(ops) ==
    IF ~empty(ops)
    THEN LET keycols == <<"player", "operatorName", "side">>
             keys == group_keys(ops.rows, keycols)
         IN  DataFrame(PlayerAggColumns,
               [i \in 1..Len(keys) |->
                  LET f == agg_fields(group_rows(ops.rows, keycols, keys[i]))
                  IN  [player |-> keys[i][1], operatorName |-> keys[i][2],
                       side |-> keys[i][3],
                       killsPerMatch |-> kills_per_match(f.kills, f.matchesPlayed)] @@ f])
    ELSE EmptyDataFrame

(***************************************************************************)
(* The ranking functions.                                                  *)
(***************************************************************************)
compute_best_worst_maps_BothDescending(maps_agg, min_matches) ==
    LET df == at_least(maps_agg, "matchesPlayed", min_matches)
    IN  IF empty(df) THEN [melhores |-> EmptyDataFrame, piores |-> EmptyDataFrame]
        ELSE [melhores |-> sort_values(df, "winPct", FALSE),
              piores   |-> sort_values(df, "winPct", FALSE)]

compute_best_worst_maps(maps_agg, min_matches) ==
    LET df == at_least(maps_agg, "matchesPlayed", min_matches)
    IN  IF empty(df) THEN [melhores |-> EmptyDataFrame, piores |-> EmptyDataFrame]
        ELSE [melhores |-> sort_values(df, "winPct", FALSE),
              piores   |-> sort_values(df, "winPct", TRUE)]

\* The row of a side with the kills, the deaths and the kdRatio of its operators
side_row_WithKills(key, grp) ==
    LET played == col_sum(grp, "matchesPlayed")
        won    == col_sum(grp, "matchesWon")
    IN  [side          |-> key[1],
         matchesPlayed |-> played,
         matchesWon    |-> won,
         matchesLost   |-> matches_lost(played, won),
         winPctSide    |-> percent_or_zero(won, played),
         kills         |-> col_sum(grp, "kills"),
         deaths        |-> col_sum(grp, "deaths"),
         kdRatio       |-> ratio_or_zero(col_sum(grp, "kills"), col_sum(grp, "deaths"))]

side_row(key, grp) ==
    LET played == col_sum(grp, "matchesPlayed")
        won    == col_sum(grp, "matchesWon")
    IN  [side          |-> key[1],
         matchesPlayed |-> played,
         matchesWon    |-> won,
         matchesLost   |-> matches_lost(played, won),
         winPctSide    |-> percent_or_zero(won, played)]

\* compute_side_performance without its sort_values: the order of groupby
compute_side_performance_Unsorted(ops_agg) ==
    LET keys == group_keys(ops_agg.rows, <<"side">>)
    IN  DataFrame(SideColumns,
                  [i \in 1..Len(keys) |->
                     side_row(keys[i], group_rows(ops_agg.rows, <<"side">>, keys[i]))])

compute_side_performance(ops_agg) ==
    LET keys == group_keys(ops_agg.rows, <<"side">>)
        grouped == DataFrame(SideColumns,
                     [i \in 1..Len(keys) |->
                        side_row(keys[i], group_rows(ops_agg.rows, <<"side">>, keys[i]))])
    IN  sort_values(grouped, "matchesPlayed", FALSE)

with_kills_per_match(df) ==
    [columns |-> df.columns \cup {"killsPerMatch"},
     rows |-> [i \in 1..Len(df.rows) |->
                 [df.rows[i] EXCEPT !.killsPerMatch =
                     kills_per_match(df.rows[i].kills, df.rows[i].matchesPlayed)]]]

compute_most_played_operators(ops_agg_player, min_matches, n) ==
    LET df == at_least(ops_agg_player, "matchesPlayed", min_matches)
    IN  IF empty(df)
        THEN [mais_jogados |-> EmptyDataFrame, maior_win |-> EmptyDataFrame,
              maior_kpm |-> EmptyDataFrame]
        ELSE [mais_jogados |-> head(sort_values(df, "matchesPlayed", FALSE), n),
              maior_win    |-> head(sort_values(df, "winPct", FALSE), n),
              maior_kpm    |-> head(sort_values(with_kills_per_match(df),
                                                "killsPerMatch", FALSE), n)]

(***************************************************************************)
(* The state of one run of main().                                         *)
(***************************************************************************)
VARIABLES
    disk,                    \* players/<name>/{overview,maps,operators}.json
    pc,                      \* the position of main(), or of a function under test
    log,                     \* what st.error / st.warning / st.info have shown
    jogadores_selecionados,  \* the roster chosen in the sidebar
    min_operator_matches, min_map_matches,
    k,                       \* the load loop: index of the next player
    overview_json, maps_json, ops_json,   \* what load_player_data returned last
    df_over, df_maps, df_ops,             \* what the extractors returned last
    overview_raw_by_player, overview_list, maps_list, ops_list,
    overview_df, maps_df, ops_df,
    df_overview_equipe, maps_df_agg, ops_df_agg_team, ops_df_agg_player,
    melhores5, piores5,      \* tab 2
    side_perf_team,          \* tab 3
    j,                       \* tab 4: index of the next player
    df_jogador, top_n, mais_jogados, maior_win, maior_kpm,
    melhor_mapa, best_side_row, melhores_ops,   \* tab 5: the rows it highlights
    sides_df_agg,
    playstyles,              \* tab 5: what extract_playstyles returned, per player
    rep_ops, rep_maps, rep_sides,               \* create_pdf_report: its filtered frames
    elements,                                   \* create_pdf_report: the document
    cache,                   \* st.cache_data: what load_player_data has returned
    previous                 \* the tables of the run before this one, if any

params == <<jogadores_selecionados, min_operator_matches, min_map_matches>>
loaded == <<overview_json, maps_json, ops_json, df_over, df_maps, df_ops>>
lists  == <<overview_raw_by_player, overview_list, maps_list, ops_list>>
frames == <<overview_df, maps_df, ops_df>>
aggs   == <<df_overview_equipe, maps_df_agg, ops_df_agg_team, ops_df_agg_player>>
tab2   == <<melhores5, piores5>>
tab4   == <<j, df_jogador, top_n, mais_jogados, maior_win, maior_kpm>>
tab5   == <<melhor_mapa, best_side_row, melhores_ops, sides_df_agg, playstyles>>
report == <<rep_ops, rep_maps, rep_sides, elements>>
session == <<cache, previous>>

vars == <<disk, pc, log, params, k, loaded, lists, frames, aggs, tab2, side_perf_team, tab4,
          tab5, report, session>>

\* A file that does not exist: load_player_data returns None for it
NoOverview == [exists |-> FALSE, data |-> [segments |-> <<>>]]
NoList == [exists |-> FALSE, data |-> <<>>]
File(content) == [exists |-> TRUE, data |-> content]

\* The players found under players/
all_players == <<P_A, P_B>>

\* top_n of the call in tab 4
TopN == 10

\* Nothing loaded yet
BlankLoaded ==
    /\ overview_json = NoOverview /\ maps_json = NoList /\ ops_json = NoList
    /\ df_over = EmptyDataFrame /\ df_maps = EmptyDataFrame /\ df_ops = EmptyDataFrame

BlankFrames ==
    /\ overview_raw_by_player = <<>>
    /\ overview_list = <<>> /\ maps_list = <<>> /\ ops_list = <<>>
    /\ overview_df = EmptyDataFrame /\ maps_df = EmptyDataFrame /\ ops_df = EmptyDataFrame

BlankAggs ==
    /\ df_overview_equipe = EmptyDataFrame /\ maps_df_agg = EmptyDataFrame
    /\ ops_df_agg_team = EmptyDataFrame /\ ops_df_agg_player = EmptyDataFrame

\* Nothing ranked or shown yet
BlankTabs ==
    /\ melhores5 = EmptyDataFrame /\ piores5 = EmptyDataFrame
    /\ side_perf_team = EmptyDataFrame
    /\ j = 0
    /\ df_jogador = EmptyDataFrame
    /\ mais_jogados = EmptyDataFrame /\ maior_win = EmptyDataFrame
    /\ maior_kpm = EmptyDataFrame
    /\ melhor_mapa = <<>> /\ best_side_row = <<>> /\ melhores_ops = <<>>
    /\ sides_df_agg = EmptyDataFrame
    /\ playstyles = <<>>
    /\ rep_ops = EmptyDataFrame /\ rep_maps = EmptyDataFrame
    /\ rep_sides = EmptyDataFrame
    /\ elements = <<>>

\* A session in which main() has not run yet
BlankSession == cache = <<>> /\ previous = <<>>

Blank ==
    /\ log = <<>>
    /\ jogadores_selecionados = <<>>
    /\ min_operator_matches = 0 /\ min_map_matches = 0
    /\ k = 0
    /\ top_n = 0
    /\ BlankLoaded /\ BlankFrames /\ BlankAggs /\ BlankTabs /\ BlankSession

\* The body of load_player_data giving up at the first file that is missing
read_player_files_StopsAtFirstMissing(player_dir) ==
    LET overview == IF disk[player_dir][1].exists THEN File(disk[player_dir][1].data)
                    ELSE NoOverview
        maps == IF overview.exists /\ disk[player_dir][2].exists
                THEN File(disk[player_dir][2].data)
                ELSE NoList
        ops == IF maps.exists /\ disk[player_dir][3].exists
               THEN File(disk[player_dir][3].data)
               ELSE NoList
    IN  <<overview, maps, ops>>

\* The body of load_player_data: os.path.isfile and json.load of each of the
\* three files, None for a file that does not exist
read_player_files(player_dir) ==
    LET overview == IF disk[player_dir][1].exists THEN File(disk[player_dir][1].data)
                    ELSE NoOverview
        maps == IF disk[player_dir][2].exists THEN File(disk[player_dir][2].data)
                ELSE NoList
        ops == IF disk[player_dir][3].exists THEN File(disk[player_dir][3].data)
               ELSE NoList
    IN  <<overview, maps, ops>>

\* @st.cache_data: the body runs for a directory not loaded before in the session
load_player_data(player_dir) ==
    IF player_dir \in DOMAIN cache THEN cache[player_dir]
    ELSE read_player_files(player_dir)

\* What st.cache_data holds once load_player_data has returned
cache_after(player_dir) ==
    IF player_dir \in DOMAIN cache THEN cache
    ELSE cache @@ (player_dir :> read_player_files(player_dir))

(***************************************************************************)
(* main(): 7.1 to 7.3.                                                     *)
(***************************************************************************)
Msg(level, what, who) == [level |-> level, what |-> what, player |-> who]

\* 7.1 without st.stop(): the error is shown and the run goes on
CheckBaseFolder_NoStop ==
    /\ pc = "start"
    /\ \E isdir \in BOOLEAN :
         IF isdir
         THEN pc' = "select" /\ log' = log
         ELSE pc' = "select" /\ log' = Append(log, Msg("error", "no base folder", <<>>))
    /\ UNCHANGED <<disk, session, tab5, report, params, k, loaded, lists, frames, aggs,
                   tab2, side_perf_team, tab4>>

\* 7.1: os.path.isdir("players")
CheckBaseFolder ==
    /\ pc = "start"
    /\ \E isdir \in BOOLEAN :
         IF isdir
         THEN pc' = "select" /\ log' = log
         ELSE pc' = "stopped" /\ log' = Append(log, Msg("error", "no base folder", <<>>))
    /\ UNCHANGED <<disk, session, tab5, report, params, k, loaded, lists, frames, aggs,
                   tab2, side_perf_team, tab4>>

\* 7.1: the multiselect of the sidebar
SelectPlayers(rosters) ==
    /\ pc = "select"
    /\ \E selection \in rosters :
         /\ jogadores_selecionados' = selection
         /\ IF selection = <<>>
            THEN pc' = "stopped"
                 /\ log' = Append(log, Msg("warning", "no player selected", <<>>))
            ELSE pc' = "params" /\ log' = log
    /\ UNCHANGED <<disk, session, tab5, report, min_operator_matches, min_map_matches,
                   k, loaded, lists, frames, aggs, tab2, side_perf_team, tab4>>

\* 7.2 with min_value=0: a threshold may be 0
ReadThresholds_FromZero ==
    /\ pc = "params"
    /\ \E o \in 0..MaxThreshold, m \in 0..MaxThreshold :
         min_operator_matches' = o /\ min_map_matches' = m
    /\ pc' = "load"
    /\ k' = 1
    /\ UNCHANGED <<disk, session, tab5, report, log, jogadores_selecionados, loaded,
                   lists, frames, aggs, tab2, side_perf_team, tab4>>

\* 7.2: the two number inputs (min_value=1)
ReadThresholds ==
    /\ pc = "params"
    /\ \E o \in 1..MaxThreshold, m \in 1..MaxThreshold :
         min_operator_matches' = o /\ min_map_matches' = m
    /\ pc' = "load"
    /\ k' = 1
    /\ UNCHANGED <<disk, session, tab5, report, log, jogadores_selecionados, loaded,
                   lists, frames, aggs, tab2, side_perf_team, tab4>>

missing_warnings(player, ov, mp, op) ==
    (IF ov.exists THEN <<>> ELSE <<Msg("warning", "overview.json", player)>>)
    \o (IF mp.exists THEN <<>> ELSE <<Msg("warning", "maps.json", player)>>)
    \o (IF op.exists THEN <<>> ELSE <<Msg("warning", "operators.json", player)>>)

\* 7.3: one turn of the loop over the selected players
LoadPlayer ==
    /\ pc = "load"
    /\ LET player == jogadores_selecionados[k]
           f == load_player_data(player)
       IN
         LET ov == parse_overview_to_df(f[1].data, player)
             mp == parse_maps_to_df(f[2].data, player)
             op == parse_operators_to_df(f[3].data, player)
         IN  /\ overview_json' = f[1] /\ maps_json' = f[2] /\ ops_json' = f[3]
             /\ df_over' = (IF f[1].exists THEN ov ELSE df_over)
             /\ df_maps' = (IF f[2].exists THEN mp ELSE df_maps)
             /\ df_ops' = (IF f[3].exists THEN op ELSE df_ops)
             /\ overview_raw_by_player' =
                  (IF f[1].exists
                   THEN Append(overview_raw_by_player,
                               [player |-> player, overview_json |-> f[1].data])
                   ELSE overview_raw_by_player)
             /\ overview_list' = (IF f[1].exists THEN Append(overview_list, ov)
                                  ELSE overview_list)
             /\ maps_list' = (IF f[2].exists THEN Append(maps_list, mp) ELSE maps_list)
             /\ ops_list' = (IF f[3].exists THEN Append(ops_list, op) ELSE ops_list)
             /\ log' = log \o missing_warnings(player, f[1], f[2], f[3])
             /\ cache' = cache_after(player)
    /\ k' = k + 1
    /\ pc' = (IF k = Len(jogadores_selecionados) THEN "aggregate" ELSE "load")
    /\ UNCHANGED <<disk, previous, tab5, report, params, frames, aggs, tab2, side_perf_team,
                   tab4>>

\* 7.3 (end) and 7.4: the concatenations and the aggregate tables
Aggregate ==
    /\ pc = "aggregate"
    /\ overview_df' = (IF overview_list # <<>> THEN pd_concat(overview_list)
                       ELSE EmptyDataFrame)
    /\ maps_df' = (IF maps_list # <<>> THEN pd_concat(maps_list) ELSE EmptyDataFrame)
    /\ ops_df' = (IF ops_list # <<>> THEN pd_concat(ops_list) ELSE EmptyDataFrame)
    /\ df_overview_equipe' = overview_equipe(overview_df')
    /\ maps_df_agg' = aggregate_maps(maps_df')
    /\ ops_df_agg_team' = aggregate_ops_team(ops_df')
    /\ ops_df_agg_player' = aggregate_ops_player(ops_df')
    /\ pc' = "tab_maps"
    /\ UNCHANGED <<disk, session, tab5, report, log, params, k, loaded, lists, tab2,
                   side_perf_team, tab4>>

(***************************************************************************)
(* main(): the tabs.                                                       *)
(***************************************************************************)
\* Tab 2 with a compute_best_worst_maps that filters the caller's frame
MapTab_FiltersInPlace ==
    /\ pc = "tab_maps"
    /\ IF empty(maps_df_agg)
       THEN /\ log' = Append(log, Msg("info", "no map data", <<>>))
            /\ UNCHANGED <<tab2, maps_df_agg>>
            /\ pc' = "tab_sides"
       ELSE LET r == compute_best_worst_maps(maps_df_agg, min_map_matches)
            IN  /\ melhores5' = r.melhores
                /\ piores5' = r.piores
                /\ maps_df_agg' = at_least(maps_df_agg, "matchesPlayed", min_map_matches)
                /\ log' = (IF "mapName" \in r.melhores.columns THEN log
                           ELSE Append(log, Msg("exception", "KeyError in the map tab",
                                                <<>>)))
                /\ pc' = (IF "mapName" \in r.melhores.columns THEN "tab_sides"
                          ELSE "fault")
    /\ UNCHANGED <<disk, session, tab5, report, params, k, loaded, lists, frames,
                   df_overview_equipe, ops_df_agg_team, ops_df_agg_player,
                   side_perf_team, tab4>>

\* Tab 2. Selecting the columns of a frame that has none raises KeyError.
MapTab ==
    /\ pc = "tab_maps"
    /\ IF empty(maps_df_agg)
       THEN /\ log' = Append(log, Msg("info", "no map data", <<>>))
            /\ UNCHANGED tab2
            /\ pc' = "tab_sides"
       ELSE LET r == compute_best_worst_maps(maps_df_agg, min_map_matches)
            IN  /\ melhores5' = r.melhores
                /\ piores5' = r.piores
                /\ log' = (IF "mapName" \in r.melhores.columns THEN log
                           ELSE Append(log, Msg("exception", "KeyError in the map tab", <<>>)))
                /\ pc' = (IF "mapName" \in r.melhores.columns THEN "tab_sides"
                          ELSE "fault")
    /\ UNCHANGED <<disk, session, tab5, report, params, k, loaded, lists, frames, aggs,
                   side_perf_team, tab4>>

\* Tab 3
SideTab ==
    /\ pc = "tab_sides"
    /\ IF empty(ops_df_agg_team)
       THEN /\ log' = Append(log, Msg("info", "no operator data for sides", <<>>))
            /\ UNCHANGED side_perf_team
       ELSE /\ side_perf_team' = compute_side_performance(ops_df_agg_team)
            /\ log' = log
    /\ pc' = "tab_ops"
    /\ j' = 1
    /\ UNCHANGED <<disk, session, tab5, report, params, k, loaded, lists, frames, aggs,
                   tab2, df_jogador, top_n, mais_jogados, maior_win, maior_kpm>>

\* Tab 4: one turn of the loop over the selected players
OperatorsTab ==
    /\ pc = "tab_ops"
    /\ IF empty(ops_df_agg_player)
       THEN /\ log' = Append(log, Msg("info", "no operator data", <<>>))
            /\ pc' = "tab_insights"
            /\ UNCHANGED tab4
       ELSE LET player == jogadores_selecionados[j]
                df == of_player(ops_df_agg_player, player)
                df_filtrado == at_least(df, "matchesPlayed", min_operator_matches)
                r == compute_most_played_operators(df, min_operator_matches, TopN)
            IN  /\ df_jogador' = df
                /\ IF empty(df) \/ empty(df_filtrado)
                   THEN UNCHANGED <<top_n, mais_jogados, maior_win, maior_kpm>>
                   ELSE /\ top_n' = TopN
                        /\ mais_jogados' = r.mais_jogados
                        /\ maior_win' = r.maior_win
                        /\ maior_kpm' = r.maior_kpm
                /\ j' = j + 1
                /\ pc' = (IF j = Len(jogadores_selecionados) THEN "tab_insights"
                          ELSE "tab_ops")
                /\ log' = log
    /\ UNCHANGED <<disk, session, tab5, report, params, k, loaded, lists, frames, aggs,
                   tab2, side_perf_team>>

RECURSIVE rows_with(_, _, _)
rows_with(rws, col, value) ==
    IF rws = <<>> THEN <<>>
    ELSE IF Head(rws)[col] = value
         THEN <<Head(rws)>> \o rows_with(Tail(rws), col, value)
         ELSE rows_with(Tail(rws), col, value)

RECURSIVE rows_played(_)
rows_played(rws) ==
    IF rws = <<>> THEN <<>>
    ELSE IF Head(rws).matchesPlayed > 0
         THEN <<Head(rws)>> \o rows_played(Tail(rws))
         ELSE rows_played(Tail(rws))

\* 5.5.3: the best operator of one player on one side, if any
melhor_op_of(df_jogador_filtrado, player, lado) ==
    LET df_lado == rows_with(df_jogador_filtrado.rows, "side", lado)
    IN  IF df_lado = <<>> THEN <<>>
        ELSE LET melhor_op == Head(sort_rows(df_lado, "winPct", FALSE))
             IN  << [player        |-> player,
                     side          |-> lado,
                     operatorName  |-> melhor_op.operatorName,
                     matchesPlayed |-> melhor_op.matchesPlayed,
                     winPct        |-> melhor_op.winPct,
                     killsPerMatch |-> true_divide(melhor_op.kills,
                                                   melhor_op.matchesPlayed)] >>

RECURSIVE melhores_ops_of(_, _, _)
melhores_ops_of(players, ops_agg_player, min_matches) ==
    IF players = <<>> THEN <<>>
    ELSE LET player == Head(players)
             df == at_least(of_player(ops_agg_player, player), "matchesPlayed",
                            min_matches)
         IN  (IF empty(df) THEN <<>>
              ELSE melhor_op_of(df, player, S_attacker)
                   \o melhor_op_of(df, player, S_defender))
             \o melhores_ops_of(Tail(players), ops_agg_player, min_matches)

\* overview_raw_by_player.get(player)
RECURSIVE raw_get(_, _)
raw_get(raw_by_player, player) ==
    IF raw_by_player = <<>> THEN NoOverview
    ELSE IF Head(raw_by_player).player = player
         THEN File(Head(raw_by_player).overview_json)
         ELSE raw_get(Tail(raw_by_player), player)

\* 5.5.5: the playstyles of each selected player whose overview.json was read
RECURSIVE playstyles_of(_, _)
playstyles_of(jogadores, raw_by_player) ==
    IF jogadores = <<>> THEN <<>>
    ELSE LET overview == raw_get(raw_by_player, Head(jogadores))
         IN  (IF overview.exists
              THEN <<[player |-> Head(jogadores),
                      playstyles |-> extract_playstyles(overview.data)]>>
              ELSE <<>>)
             \o playstyles_of(Tail(jogadores), raw_by_player)

\* Tab 5
InsightsTab ==
    /\ pc = "tab_insights"
    /\ IF empty(maps_df_agg) /\ empty(ops_df_agg_player)
       THEN /\ log' = Append(log, Msg("info", "not enough data for insights", <<>>))
            /\ pc' = "stopped"
            /\ UNCHANGED <<tab5, side_perf_team>>
       ELSE LET df_maps_filtrado ==
                    at_least(maps_df_agg, "matchesPlayed", min_map_matches)
                sides == IF empty(ops_df_agg_team) THEN side_perf_team
                         ELSE compute_side_performance(ops_df_agg_team)
                played == rows_played(sides.rows)
                no_best_side == ~empty(ops_df_agg_team) /\ ~empty(sides)
                                /\ played = <<>>
                ops == IF empty(ops_df_agg_player) THEN <<>>
                       ELSE melhores_ops_of(jogadores_selecionados, ops_df_agg_player,
                                            min_operator_matches)
            IN  /\ melhor_mapa' =
                     (IF empty(maps_df_agg) \/ empty(df_maps_filtrado) THEN <<>>
                      ELSE <<Head(sort_rows(df_maps_filtrado.rows, "winPct", FALSE))>>)
                /\ side_perf_team' = sides
                \* .iloc[0] of a frame without rows raises IndexError
                /\ best_side_row' =
                     (IF empty(ops_df_agg_team) \/ empty(sides) \/ no_best_side THEN <<>>
                      ELSE <<Head(sort_rows(played, "winPctSide", FALSE))>>)
                /\ melhores_ops' = (IF no_best_side THEN melhores_ops ELSE ops)
                /\ sides_df_agg' =
                     (IF no_best_side THEN sides_df_agg
                      ELSE IF ~empty(ops_df_agg_team)
                           THEN compute_side_performance(ops_df_agg_team)
                           ELSE EmptyDataFrame)
                /\ playstyles' =
                     (IF no_best_side THEN playstyles
                      ELSE playstyles_of(jogadores_selecionados, overview_raw_by_player))
                /\ log' = (IF no_best_side
                           THEN Append(log, Msg("exception", "IndexError in the insights tab",
                                                <<>>))
                           ELSE log)
                /\ pc' = (IF no_best_side THEN "fault" ELSE "button")
    /\ UNCHANGED <<disk, session, report, params, k, loaded, lists, frames, aggs, tab2,
                   tab4>>

(***************************************************************************)
(* create_pdf_report: the filters it starts with.                          *)
(***************************************************************************)
RECURSIVE rows_not_unknown(_, _)
rows_not_unknown(rws, col) ==
    IF rws = <<>> THEN <<>>
    ELSE IF str_lower(Head(rws)[col]) # S_unknown
         THEN <<Head(rws)>> \o rows_not_unknown(Tail(rws), col)
         ELSE rows_not_unknown(Tail(rws), col)

\* The filter of the report comparing the name as it is written
not_unknown_CaseSensitive(df, col) ==
    IF col \in df.columns
    THEN [columns |-> df.columns,
          rows |-> SelectSeq(df.rows, LAMBDA row : row[col] # S_unknown)]
    ELSE df

\* if col in df.columns: df = df[df[col].str.lower() != "unknown"]
not_unknown(df, col) ==
    IF col \in df.columns
    THEN [columns |-> df.columns, rows |-> rows_not_unknown(df.rows, col)]
    ELSE df

\* An element appended to the document: a Paragraph, Image, Table or Spacer,
\* the section of create_pdf_report that appends it, the player it is about
\* and the rows of the tables that it shows
Element(section, kind, who) ==
    [section |-> section, kind |-> kind, player |-> who, shown |-> <<>>]

Showing(section, kind, who, rws) == [Element(section, kind, who) EXCEPT !.shown = rws]

\* iloc[0] and iloc[-1] of the frame sorted by the column upwards
first_and_last_Ascending(df, col) ==
    LET sorted == sort_values(df, col, TRUE).rows IN <<sorted[1], sorted[Len(sorted)]>>

\* df.sort_values(col, ascending=False): its iloc[0] and its iloc[-1]
first_and_last(df, col) ==
    LET sorted == sort_values(df, col, FALSE).rows
    IN  <<sorted[1], sorted[Len(sorted)]>>

\* 3: the title
title_section == <<Element("title", "heading", <<>>), Element("title", "spacer", <<>>)>>

\* 4.1: the best and the worst map of the team
maps_summary_section(maps) ==
    IF ~empty(maps)
    THEN <<Element("maps_summary", "heading", <<>>),
           Showing("maps_summary", "text", <<>>, first_and_last(maps, "winPct")),
           Element("maps_summary", "spacer", <<>>)>>
    ELSE <<>>

\* 4.2: the best and the worst side of the team
sides_summary_section(sides) ==
    IF ~empty(sides)
    THEN <<Element("sides_summary", "heading", <<>>),
           Element("sides_summary", "text", <<>>),
           Element("sides_summary", "spacer", <<>>)>>
    ELSE <<>>

\* 5.2: top_op and bot_op with the Kills/Match figure of the text
with_kills_per_match_shown(rws) ==
    [i \in 1..Len(rws) |->
        [shownKillsPerMatch |-> true_divide(rws[i].kills, rws[i].matchesPlayed)]
        @@ rws[i]]

\* 5: the operators of each player, in the order of the roster
RECURSIVE operator_blocks(_, _)
operator_blocks(jogadores, ops) ==
    IF jogadores = <<>> THEN <<>>
    ELSE LET player == Head(jogadores)
             df_ops_jog == of_player(ops, player)
         IN  <<Element("operators", "heading", player)>>
             \o (IF empty(df_ops_jog)
                 THEN <<Element("operators", "no_data", player),
                        Element("operators", "spacer", player)>>
                 ELSE <<Showing("operators", "text", player,
                                with_kills_per_match_shown(
                                    first_and_last(df_ops_jog, "winPct"))),
                        Element("operators", "spacer", player),
                        Element("operators", "image", player),
                        Element("operators", "spacer", player)>>)
             \o operator_blocks(Tail(jogadores), ops)

\* 6: the scatter of the maps of the team
map_chart_section(maps) ==
    IF ~empty(maps)
    THEN <<Element("map_chart", "heading", <<>>),
           Showing("map_chart", "image", <<>>, maps.rows),
           Element("map_chart", "spacer", <<>>)>>
    ELSE <<>>

\* row.get(col, default) of a row of a frame
row_get(row, col, default) == IF col \in DOMAIN row THEN row[col] ELSE default

\* f"{q:.1f}" and f"{q:.2f}": the number in units of 10^-places, rounded
fixed(q, places) == (2 * q.n * 10 ^ places + q.d) \div (2 * q.d)

\* 7: a line of the table for each row of the side aggregate
side_table_rows(sides) ==
    [i \in 1..Len(sides.rows) |->
        LET row == sides.rows[i]
        IN  [side          |-> row.side,
             matchesPlayed |-> row.matchesPlayed,
             winPctSide    |-> fixed(row.winPctSide, 1),
             kills         |-> row_get(row, "kills", 0),
             deaths        |-> row_get(row, "deaths", 0),
             kdRatio       |-> fixed(row_get(row, "kdRatio", Zero), 2)]]

\* 7: the table of the sides
side_table_section(sides) ==
    IF ~empty(sides)
    THEN <<Element("side_table", "heading", <<>>),
           Showing("side_table", "table", <<>>, side_table_rows(sides)),
           Element("side_table", "spacer", <<>>)>>
    ELSE <<>>

\* 8: the overview of each player who has one, in the order of the dict
RECURSIVE overview_lines(_)
overview_lines(raw_by_player) ==
    IF raw_by_player = <<>> THEN <<>>
    ELSE LET player == Head(raw_by_player).player
             df_over_df == parse_overview_to_df(Head(raw_by_player).overview_json, player)
         IN  (IF empty(df_over_df)
              THEN <<Element("overview", "no_data", player)>>
              ELSE <<Element("overview", "text", player),
                     Element("overview", "spacer", player)>>)
             \o overview_lines(Tail(raw_by_player))

overview_section(raw_by_player) ==
    <<Element("overview", "heading", <<>>)>> \o overview_lines(raw_by_player)

\* The layout with the chart of the maps ahead of the operators of the players
report_elements_ChartBeforeOperators(jogadores, raw_by_player, maps, ops, sides) ==
    title_section
    \o maps_summary_section(maps)
    \o sides_summary_section(sides)
    \o map_chart_section(maps)
    \o operator_blocks(jogadores, ops)
    \o side_table_section(sides)
    \o overview_section(raw_by_player)

\* create_pdf_report, 3 to 8: the elements of the document in the order they
\* are appended, from the filtered tables
report_elements(jogadores, raw_by_player, maps, ops, sides) ==
    title_section
    \o maps_summary_section(maps)
    \o sides_summary_section(sides)
    \o operator_blocks(jogadores, ops)
    \o map_chart_section(maps)
    \o side_table_section(sides)
    \o overview_section(raw_by_player)

\* The button of tab 5 and, when it is pressed, create_pdf_report.
\* df["matchesPlayed"] of a frame without that column raises KeyError.
GenerateReport ==
    /\ pc = "button"
    /\ \E pressed \in BOOLEAN :
         IF ~pressed
         THEN pc' = "done" /\ log' = log /\ UNCHANGED report
         ELSE LET ops == not_unknown(ops_df_agg_player, "operatorName")
                  maps == not_unknown(maps_df_agg, "mapName")
              IN  IF "matchesPlayed" \notin ops.columns
                  THEN /\ pc' = "fault"
                       /\ log' = Append(log, Msg("exception", "KeyError in create_pdf_report",
                                                 <<>>))
                       /\ UNCHANGED report
                  ELSE IF "matchesPlayed" \notin maps.columns
                  THEN /\ pc' = "fault"
                       /\ log' = Append(log, Msg("exception", "KeyError in create_pdf_report",
                                                 <<>>))
                       /\ rep_ops' = at_least(ops, "matchesPlayed", min_operator_matches)
                       /\ UNCHANGED <<rep_maps, rep_sides, elements>>
                  ELSE /\ pc' = "done"
                       /\ log' = Append(log, Msg("success", "report generated", <<>>))
                       /\ rep_ops' = at_least(ops, "matchesPlayed", min_operator_matches)
                       /\ rep_maps' = at_least(maps, "matchesPlayed", min_map_matches)
                       /\ rep_sides' = not_unknown(sides_df_agg, "side")
                       /\ elements' =
                            report_elements(
                                jogadores_selecionados, overview_raw_by_player,
                                at_least(maps, "matchesPlayed", min_map_matches),
                                at_least(ops, "matchesPlayed", min_operator_matches),
                                not_unknown(sides_df_agg, "side"))
    /\ UNCHANGED <<disk, session, tab5, params, k, loaded, lists, frames, aggs, tab2,
                   side_perf_team, tab4>>

(***************************************************************************)
(* The inputs of the model.                                                *)
(***************************************************************************)
\* All lists of at most n elements of a set
RECURSIVE ListsUpTo(_, _)
ListsUpTo(S, n) ==
    IF n = 0 THEN {<<>>}
    ELSE LET shorter == ListsUpTo(S, n - 1)
         IN  shorter \cup {Append(l, x) : l \in shorter, x \in S}

\* A stats object holding the four counts only
Counts(played, won, kills, deaths) ==
    [matchesPlayed |-> Stat(played), matchesWon |-> Stat(won),
     matchesLost |-> StatAbsent, winPercentage |-> StatAbsent,
     kills |-> Stat(kills), deaths |-> Stat(deaths), kdRatio |-> StatAbsent]

\* A stats object as the tracker writes it, with its own derived figures
Full(played, won, lost, pct, kills, deaths, kd) ==
    [matchesPlayed |-> Stat(played), matchesWon |-> Stat(won),
     matchesLost |-> Stat(lost), winPercentage |-> Stat(pct),
     kills |-> Stat(kills), deaths |-> Stat(deaths), kdRatio |-> Stat(kd)]

OperatorEntry(meta, attr, side, stats) ==
    [metadata |-> [operatorName |-> meta],
     attributes |-> [operator |-> attr, side |-> side],
     stats |-> stats]

MapEntry(meta, attr, stats) ==
    [metadata |-> [mapName |-> meta], attributes |-> [map |-> attr], stats |-> stats]

Segment(type, stats) == [type |-> type, stats |-> stats]

\* The operator entries of the files main() is run on
Op_Ash_attacker ==
    OperatorEntry(Text(S_Ash), Absent, Text(S_attacker), Full(2, 1, 1, 50, 3, 2, 1))
Op_UNKNOWN ==
    OperatorEntry(Absent, Text(S_UNKNOWN), Text(S_defender), Counts(2, 2, 1, 0))
Op_Ash_defender ==
    OperatorEntry(Absent, Text(<<" ">> \o S_Ash), Text(S_defender), Counts(1, 0, 2, 0))
Op_IQ_unplayed ==
    OperatorEntry(Text(S_IQ), Absent, Absent,
                  [Counts(0, 1, 2, 0) EXCEPT !.matchesPlayed = StatNullValue])

RunOperatorEntries == {Op_Ash_attacker, Op_UNKNOWN, Op_Ash_defender, Op_IQ_unplayed}

\* The map entries of the files main() is run on
Map_Bank == MapEntry(Text(S_Bank), Absent, Full(2, 1, 1, 50, 2, 1, 2))
Map_Bank_unplayed ==
    MapEntry(Absent, Text(S_Bank), [Counts(0, 2, 1, 0) EXCEPT !.matchesPlayed = StatAbsent])
Map_nameless == MapEntry(Absent, Absent, Counts(1, 1, 1, 0))
Map_Oregon == MapEntry(Text(S_Oregon), Text(S_Bank), Counts(1, 0, 0, 1))

RunMapEntries == {Map_Bank, Map_Bank_unplayed, Map_nameless, Map_Oregon}

\* The overview files main() is run on
Overview_season == [segments |-> <<Segment("season", Counts(9, 9, 9, 9))>>]
Overview_full == [segments |-> <<Segment("overview", Full(3, 2, 1, 67, 4, 2, 2))>>]
Overview_counts ==
    [segments |->
        <<Segment("season", Counts(9, 9, 9, 9)),
          Segment("overview",
                  Counts(50, 30, 200, 150)
                  @@ [playstyleAttackerBreacher |-> Playstyle(<<"B", "r">>, 40),
                      playstyleDefenderAnchor |-> Playstyle(<<"A", "n">>, 60)]),
          Segment("overview",
                  Counts(8, 8, 8, 8)
                  @@ [playstyleAttackerEntryFragger |-> Playstyle(<<"E", "n">>, 90)])>>]
Overview_nodeaths == [segments |-> <<Segment("overview", Counts(1, 1, 2, 0))>>]

RunOverviews == {Overview_season, Overview_full, Overview_counts, Overview_nodeaths}

NoFiles == <<NoOverview, NoList, NoList>>

\* Two lists of a set with at most n elements in all, each absent or present
ListPairs(S, n) ==
    LET opt == {NoList} \cup {File(l) : l \in ListsUpTo(S, n)}
    IN  { p \in opt \X opt : Len(p[1].data) + Len(p[2].data) <= n }

\* Players with all three files
CompleteFiles ==
    { <<File(Overview_full), File(<<Map_Bank, Map_nameless>>),
        File(<<Op_Ash_attacker, Op_Ash_defender, Op_UNKNOWN>>)>>,
      <<File(Overview_counts), File(<<Map_Bank_unplayed, Map_Oregon, Map_Bank>>),
        File(<<Op_Ash_defender, Op_IQ_unplayed>>)>>,
      <<File(Overview_season), File(<<Map_nameless>>), File(<<Op_Ash_attacker>>)>> }

Disk(a, b) == (P_A :> a) @@ (P_B :> b)

\* Players with any of the three files missing
PartialFiles ==
    { <<o, m, p>> : o \in {NoOverview, File(Overview_full)},
                    m \in {NoList, File(<<Map_Bank, Map_nameless>>)},
                    p \in {NoList, File(<<Op_Ash_attacker, Op_Ash_defender>>)} }

\* The disks main() is run on: what players/A and players/B hold. One kind of
\* file in its variety, or players with all three files.
Disks ==
    { Disk(NoFiles, NoFiles) }
    \cup { Disk(<<a, NoList, NoList>>, <<b, NoList, NoList>>) :
             a \in {NoOverview} \cup {File(o) : o \in RunOverviews},
             b \in {NoOverview} \cup {File(o) : o \in RunOverviews} }
    \cup { Disk(<<NoOverview, p[1], NoList>>, <<NoOverview, p[2], NoList>>) :
             p \in ListPairs(RunMapEntries, MaxEntries) }
    \cup { Disk(<<NoOverview, NoList, p[1]>>, <<NoOverview, NoList, p[2]>>) :
             p \in ListPairs(RunOperatorEntries, MaxEntries) }
    \cup { Disk(a, b) : a \in CompleteFiles, b \in CompleteFiles \cup {NoFiles} }
    \cup { Disk(a, b) : a \in PartialFiles, b \in PartialFiles }

Rosters == { <<>>, <<P_A>>, <<P_A, P_B>>, <<P_B, P_A>> }

(***************************************************************************)
(* Runs of main().                                                         *)
(***************************************************************************)
Init == pc = "start" /\ disk \in Disks /\ Blank

Next ==
    \/ CheckBaseFolder
    \/ SelectPlayers(Rosters)
    \/ ReadThresholds
    \/ LoadPlayer
    \/ Aggregate
    \/ MapTab
    \/ SideTab
    \/ OperatorsTab
    \/ InsightsTab
    \/ GenerateReport

Spec == Init /\ [][Next]_vars

(***************************************************************************)
(* Two runs of main() in one session: the script is run again from the top *)
(* with the files unchanged; the cache of load_player_data is kept, the    *)
(* locals of main() are not.                                               *)
(***************************************************************************)
\* What a run has computed: its inputs and its tables
Snapshot ==
    [jogadores_selecionados |-> jogadores_selecionados,
     min_operator_matches |-> min_operator_matches,
     min_map_matches |-> min_map_matches,
     found_base_folder |-> ~(\E n \in 1..Len(log) : log[n].what = "no base folder"),
     aggs |-> aggs,
     tab2 |-> tab2,
     side_perf_team |-> side_perf_team,
     tab4 |-> tab4,
     tab5 |-> tab5]

\* Where a run of main() ends
Ended == pc \in {"done", "stopped", "fault"}

\* main() starts anew: its locals other than the three lists of lines 611-613
FreshLocals ==
    /\ pc' = "start"
    /\ log' = <<>>
    /\ jogadores_selecionados' = <<>>
    /\ min_operator_matches' = 0 /\ min_map_matches' = 0
    /\ k' = 0
    /\ overview_json' = NoOverview /\ maps_json' = NoList /\ ops_json' = NoList
    /\ df_over' = EmptyDataFrame /\ df_maps' = EmptyDataFrame /\ df_ops' = EmptyDataFrame
    /\ overview_raw_by_player' = <<>>
    /\ overview_df' = EmptyDataFrame /\ maps_df' = EmptyDataFrame
    /\ ops_df' = EmptyDataFrame
    /\ df_overview_equipe' = EmptyDataFrame /\ maps_df_agg' = EmptyDataFrame
    /\ ops_df_agg_team' = EmptyDataFrame /\ ops_df_agg_player' = EmptyDataFrame
    /\ melhores5' = EmptyDataFrame /\ piores5' = EmptyDataFrame
    /\ side_perf_team' = EmptyDataFrame
    /\ j' = 0 /\ top_n' = 0
    /\ df_jogador' = EmptyDataFrame
    /\ mais_jogados' = EmptyDataFrame /\ maior_win' = EmptyDataFrame
    /\ maior_kpm' = EmptyDataFrame
    /\ melhor_mapa' = <<>> /\ best_side_row' = <<>> /\ melhores_ops' = <<>>
    /\ sides_df_agg' = EmptyDataFrame
    /\ playstyles' = <<>>
    /\ rep_ops' = EmptyDataFrame /\ rep_maps' = EmptyDataFrame
    /\ rep_sides' = EmptyDataFrame
    /\ elements' = <<>>

\* The script is run again with the lists of the run that ended still filled
Rerun_KeepsLists ==
    /\ Ended
    /\ previous = <<>>
    /\ previous' = <<Snapshot>>
    /\ FreshLocals
    /\ UNCHANGED <<disk, cache, overview_list, maps_list, ops_list>>

\* The script is run again: main() starts with new locals and new lists
Rerun ==
    /\ Ended
    /\ previous = <<>>
    /\ previous' = <<Snapshot>>
    /\ FreshLocals
    /\ overview_list' = <<>> /\ maps_list' = <<>> /\ ops_list' = <<>>
    /\ UNCHANGED <<disk, cache>>

\* The files of the session: any files of A beside no or all files of B
RerunDisks ==
    { Disk(a, b) : a \in PartialFiles,
                   b \in {NoFiles,
                          <<File(Overview_counts), File(<<Map_Oregon, Map_Bank>>),
                            File(<<Op_Ash_attacker, Op_UNKNOWN>>)>>} }

InitRerun == pc = "start" /\ disk \in RerunDisks /\ Blank

NextRerun ==
    \/ CheckBaseFolder
    \/ SelectPlayers(Rosters)
    \/ ReadThresholds
    \/ LoadPlayer
    \/ Aggregate
    \/ MapTab
    \/ SideTab
    \/ OperatorsTab
    \/ InsightsTab
    \/ GenerateReport
    \/ Rerun

SpecRerun == InitRerun /\ [][NextRerun]_vars

(***************************************************************************)
(* The extractors on their own: one call of parse_overview_to_df,          *)
(* parse_maps_to_df or parse_operators_to_df on a file's content.          *)
(***************************************************************************)
\* What a stats entry holds when it holds no value
MissingStats == {StatAbsent, StatNull, StatEmpty, StatNoValue, StatNullValue}

StatsFull == Full(5, 3, 1, 60, 4, 2, 2)

\* Stats objects: complete, counts only, empty, or complete but for one key
StatShapes ==
    { StatsFull, Counts(50, 30, 200, 150), Counts(2, 1, 3, 0), [key \in StatKeys |-> StatAbsent] }
    \cup { [StatsFull EXCEPT ![key] = m] : key \in StatKeys, m \in MissingStats }

\* The names an operator entry may carry, as (metadata.operatorName, attributes.operator)
OperatorNames ==
    { <<Absent, Absent>>,
      <<Text(<<" ">>), Text(S_Ash)>>,
      <<Text(<<>>), Text(S_IQ)>>,
      <<Text(S_Ash), Absent>>,
      <<Absent, Text(<<" ">> \o S_Ash \o <<" ">>)>>,
      <<Text(S_Unknown), Absent>>,
      <<Absent, Text(<<" ">> \o S_UNKNOWN \o <<" ">>)>>,
      <<Text(S_unknown), Text(S_Ash)>>,
      <<Text(S_Unknown \o <<"s">>), Absent>>,
      <<Text(<<"U","n"," ","k","n","o","w","n">>), Absent>>,
      <<Text(S_IQ), Text(S_Unknown)>> }

\* Operator entries that differ in their names
NamedOperatorEntries ==
    { OperatorEntry(nm[1], nm[2], side, StatsFull) :
        nm \in OperatorNames, side \in {Absent, Text(S_attacker)} }

\* Operator entries that differ in their stats
StatOperatorEntries ==
    { OperatorEntry(Text(S_Ash), Absent, Text(S_defender), st) : st \in StatShapes }

OperatorFiles ==
    { File(l) : l \in ListsUpTo(NamedOperatorEntries, MaxEntries) }
    \cup { File(<<e>>) : e \in StatOperatorEntries }
    \cup { File(<<e, Op_UNKNOWN>>) : e \in StatOperatorEntries }

MapNames == { <<Absent, Absent>>, <<Text(S_Bank), Text(S_Oregon)>>, <<Absent, Text(S_Oregon)>>,
              <<Text(S_unknown), Absent>>, <<Text(<<>>), Text(S_Bank)>> }

MapFiles ==
    { File(l) : l \in ListsUpTo({MapEntry(nm[1], nm[2], st) :
                                   nm \in MapNames, st \in {StatsFull, Counts(2, 1, 3, 0)}},
                                MaxEntries) }
    \cup { File(<<MapEntry(Text(S_Bank), Absent, st)>>) : st \in StatShapes }

OverviewFiles ==
    { File([segments |-> <<>>]), File(Overview_season) }
    \cup { File([segments |-> <<Segment("overview", st)>>]) : st \in StatShapes }
    \cup { File([segments |-> <<Segment("season", StatsFull), Segment("overview", st),
                                Segment("overview", StatsFull)>>]) : st \in StatShapes }

InitExtract ==
    /\ disk = Disk(NoFiles, NoFiles)
    /\ log = <<>>
    /\ jogadores_selecionados \in {<<P_A>>, <<P_B>>}
    /\ k = 1
    /\ min_operator_matches = 0 /\ min_map_matches = 0
    /\ top_n = 0
    /\ df_over = EmptyDataFrame /\ df_maps = EmptyDataFrame /\ df_ops = EmptyDataFrame
    /\ pc \in {"extract_overview", "extract_maps", "extract_operators"}
    /\ overview_json \in (IF pc = "extract_overview" THEN OverviewFiles ELSE {NoOverview})
    /\ maps_json \in (IF pc = "extract_maps" THEN MapFiles ELSE {NoList})
    /\ ops_json \in (IF pc = "extract_operators" THEN OperatorFiles ELSE {NoList})
    /\ BlankFrames /\ BlankAggs /\ BlankTabs /\ BlankSession

ExtractOverview ==
    /\ pc = "extract_overview"
    /\ df_over' = parse_overview_to_df(overview_json.data, jogadores_selecionados[k])
    /\ pc' = "extracted_overview"
    /\ UNCHANGED <<disk, session, log, params, k, overview_json, maps_json, ops_json,
                   df_maps, df_ops, lists, frames, aggs, tab2, side_perf_team, tab4,
                   tab5, report>>

ExtractMaps ==
    /\ pc = "extract_maps"
    /\ df_maps' = parse_maps_to_df(maps_json.data, jogadores_selecionados[k])
    /\ pc' = "extracted_maps"
    /\ UNCHANGED <<disk, session, log, params, k, overview_json, maps_json, ops_json,
                   df_over, df_ops, lists, frames, aggs, tab2, side_perf_team, tab4,
                   tab5, report>>

ExtractOperators ==
    /\ pc = "extract_operators"
    /\ df_ops' = parse_operators_to_df(ops_json.data, jogadores_selecionados[k])
    /\ pc' = "extracted_operators"
    /\ UNCHANGED <<disk, session, log, params, k, overview_json, maps_json, ops_json,
                   df_over, df_maps, lists, frames, aggs, tab2, side_perf_team, tab4,
                   tab5, report>>

NextExtract == ExtractOverview \/ ExtractMaps \/ ExtractOperators

SpecExtract == InitExtract /\ [][NextExtract]_vars


(***************************************************************************)
(* The ranking functions on their own: one call of compute_best_worst_maps,*)
(* compute_most_played_operators or compute_side_performance on an         *)
(* aggregate of main().                                                    *)
(***************************************************************************)
MapRow(name, played, won, kills, deaths) ==
    [player |-> P_A, mapName |-> name, matchesPlayed |-> played, matchesWon |-> won,
     winPct |-> Zero, kills |-> kills, deaths |-> deaths, kdRatio |-> Zero]

\* Extracted map rows: three maps, one of them twice
MapRows ==
    { MapRow(S_Bank, 2, 1, 2, 1), MapRow(S_Bank, 1, 1, 0, 1), MapRow(S_Oregon, 1, 0, 1, 0),
      MapRow(S_Unknown, 0, 0, 0, 0), MapRow(S_Unknown, 3, 2, 1, 1), MapRow(S_Oregon, 2, 2, 3, 1) }

OperatorRow(player, name, side, played, won, kills, deaths) ==
    [player |-> player, operatorName |-> name, side |-> side, matchesPlayed |-> played,
     matchesWon |-> won, winPct |-> Zero, kills |-> kills, deaths |-> deaths,
     kdRatio |-> Zero]

\* Extracted operator rows: four operators of one player and one of another
OperatorRows ==
    { OperatorRow(P_A, S_Ash, S_attacker, 2, 1, 3, 1),
      OperatorRow(P_A, S_Ash, S_defender, 1, 1, 0, 1),
      OperatorRow(P_A, S_IQ, S_attacker, 1, 0, 2, 0),
      OperatorRow(P_A, S_IQ, S_all, 0, 0, 1, 0),
      OperatorRow(P_A, S_IQ, S_attacker, 2, 2, 1, 1),
      OperatorRow(P_B, S_Ash, S_attacker, 3, 1, 1, 2) }

InitRank ==
    /\ disk = Disk(NoFiles, NoFiles)
    /\ log = <<>>
    /\ jogadores_selecionados = <<>>
    /\ k = 0
    /\ pc \in {"rank_maps", "rank_operators", "rank_sides"}
    /\ BlankLoaded /\ BlankFrames /\ BlankTabs /\ BlankSession
    /\ df_overview_equipe = EmptyDataFrame
    /\ IF pc = "rank_maps"
       THEN /\ maps_df_agg \in { aggregate_maps(DataFrame(MapColumns, l)) :
                                   l \in ListsUpTo(MapRows, MaxRows) \ {<<>>} }
            /\ min_map_matches \in 0..MaxThreshold
            /\ ops_df_agg_player = EmptyDataFrame /\ ops_df_agg_team = EmptyDataFrame
            /\ min_operator_matches = 0 /\ top_n = 0
       ELSE /\ \E l \in ListsUpTo(OperatorRows, MaxRows) \ {<<>>} :
                 /\ ops_df_agg_player = aggregate_ops_player(DataFrame(OperatorColumns, l))
                 /\ ops_df_agg_team = aggregate_ops_team(DataFrame(OperatorColumns, l))
            /\ IF pc = "rank_operators"
               THEN min_operator_matches \in 0..MaxThreshold /\ top_n \in 1..MaxTopN
               ELSE min_operator_matches = 0 /\ top_n = 0
            /\ maps_df_agg = EmptyDataFrame
            /\ min_map_matches = 0

RankMaps ==
    /\ pc = "rank_maps"
    /\ LET r == compute_best_worst_maps(maps_df_agg, min_map_matches)
       IN  melhores5' = r.melhores /\ piores5' = r.piores
    /\ pc' = "ranked_maps"
    /\ UNCHANGED <<disk, session, log, params, k, loaded, lists, frames, aggs,
                   side_perf_team, tab4, tab5, report>>

RankOperators ==
    /\ pc = "rank_operators"
    /\ LET r == compute_most_played_operators(ops_df_agg_player, min_operator_matches, top_n)
       IN  /\ mais_jogados' = r.mais_jogados
           /\ maior_win' = r.maior_win
           /\ maior_kpm' = r.maior_kpm
    /\ pc' = "ranked_operators"
    /\ UNCHANGED <<disk, session, log, params, k, loaded, lists, frames, aggs, tab2,
                   side_perf_team, j, df_jogador, top_n, tab5, report>>

RankSides ==
    /\ pc = "rank_sides"
    /\ side_perf_team' = compute_side_performance(ops_df_agg_team)
    /\ pc' = "ranked_sides"
    /\ UNCHANGED <<disk, session, log, params, k, loaded, lists, frames, aggs, tab2, tab4,
                   tab5, report>>

NextRank == RankMaps \/ RankOperators \/ RankSides

SpecRank == InitRank /\ [][NextRank]_vars


(***************************************************************************)
(* Properties of the extractors.                                           *)
(***************************************************************************)
\* A text without its leading and trailing spaces
Trimmed(s) ==
    LET inked == {i \in 1..Len(s) : s[i] # " "}
    IN  IF inked = {} THEN <<>>
        ELSE SubSeq(s, CHOOSE i \in inked : \A m \in inked : i <= m,
                       CHOOSE i \in inked : \A m \in inked : i >= m)

\* The word "unknown" in any mix of upper and lower case
IsUnknownWord(s) ==
    /\ Len(s) = Len(S_unknown)
    /\ \A i \in 1..Len(s) : s[i] \in {S_unknown[i], S_UNKNOWN[i]}

\* The name an operator entry carries: metadata's, else attributes', else none
DerivedName(entry) ==
    IF entry.metadata.operatorName.present THEN entry.metadata.operatorName.val
    ELSE IF entry.attributes.operator.present THEN entry.attributes.operator.val
    ELSE <<>>

NamedOperator(entry) ==
    Trimmed(DerivedName(entry)) # <<>> /\ ~IsUnknownWord(Trimmed(DerivedName(entry)))

\* C1: parse_operators_to_df gives one row for each entry whose trimmed name is
\* neither empty nor "unknown" in any case, and for no other entry: the number of
\* rows is the number of entries less the excluded ones, and the rows come in the
\* order of their entries.
C1_OperatorFilterExact ==
    pc = "extracted_operators" =>
        LET entries == ops_json.data
            named == SelectSeq(entries, NamedOperator)
            excluded == {i \in 1..Len(entries) : ~NamedOperator(entries[i])}
        IN  /\ Len(df_ops.rows) = Len(entries) - Cardinality(excluded)
            /\ Len(df_ops.rows) = Len(named)
            /\ \A i \in 1..Len(df_ops.rows) :
                 /\ df_ops.rows[i].operatorName = Trimmed(DerivedName(named[i]))
                 /\ df_ops.rows[i].side = dict_get(named[i].attributes.side, S_all)
                 /\ df_ops.rows[i].player = jogadores_selecionados[k]

\* An upper-case " UNKNOWN " entry was dropped and the entry after it kept
C1_Witness ==
    /\ pc = "extracted_operators"
    /\ Len(ops_json.data) = 2
    /\ DerivedName(ops_json.data[1]) = <<" ">> \o S_UNKNOWN \o <<" ">>
    /\ NamedOperator(ops_json.data[2])
    /\ Len(df_ops.rows) = 1
    /\ df_ops.rows[1].operatorName = S_Ash

\* The rows of every table derived from the extracted operator rows
DownstreamOperatorRows ==
    ops_df.rows \o ops_df_agg_team.rows \o ops_df_agg_player.rows \o df_jogador.rows
    \o mais_jogados.rows \o maior_win.rows \o maior_kpm.rows
    \o melhores_ops \o rep_ops.rows

\* C2: no table downstream of the extraction (the concatenated operator rows, the
\* team and per-player operator aggregates, the top-N results, the best operators
\* per side, the report's operator rows) holds a row whose operatorName is empty or
\* "unknown" in any case.
C2_NoUnknownDownstream ==
    \A i \in 1..Len(DownstreamOperatorRows) :
        /\ DownstreamOperatorRows[i].operatorName # <<>>
        /\ ~IsUnknownWord(DownstreamOperatorRows[i].operatorName)

\* A selected player's file held an unknown operator and the report was built
C2_Witness ==
    /\ pc = "done"
    /\ rep_ops.rows # <<>>
    /\ mais_jogados.rows # <<>>
    /\ \E i \in 1..Len(jogadores_selecionados) :
         \E n \in 1..Len(disk[jogadores_selecionados[i]][3].data) :
            ~NamedOperator(disk[jogadores_selecionados[i]][3].data[n])

\* The column a statistic is extracted to
FieldOf(key) == IF key = "winPercentage" THEN "winPct" ELSE key

\* Whether a row holds zero where the stats hold no value
ZeroWhereMissing(row, stats, keys) ==
    \A key \in keys :
        stats[key] \in MissingStats =>
            row[FieldOf(key)] = (IF key \in {"winPercentage", "kdRatio"} THEN Zero ELSE 0)

\* C3: in the three extractors a statistic that is absent, null, or without a
\* value (missing or null) is extracted as 0, and the row is produced all the same.
C3_MissingStatIsZero ==
    /\ pc = "extracted_overview" =>
         \A i \in 1..Len(overview_json.data.segments) :
            (/\ overview_json.data.segments[i].type = "overview"
             /\ \A m \in 1..(i - 1) : overview_json.data.segments[m].type # "overview")
            => /\ Len(df_over.rows) = 1
               /\ ZeroWhereMissing(df_over.rows[1], overview_json.data.segments[i].stats,
                                   StatKeys)
    /\ pc = "extracted_maps" =>
         /\ Len(df_maps.rows) = Len(maps_json.data)
         /\ \A i \in 1..Len(df_maps.rows) :
              ZeroWhereMissing(df_maps.rows[i], maps_json.data[i].stats,
                               StatKeys \ {"matchesLost"})
    /\ pc = "extracted_operators" =>
         LET named == SelectSeq(ops_json.data, NamedOperator)
         IN  /\ Len(df_ops.rows) = Len(named)
             /\ \A i \in 1..Len(df_ops.rows) :
                  ZeroWhereMissing(df_ops.rows[i], named[i].stats,
                                   StatKeys \ {"matchesLost"})

\* An overview row was extracted from stats whose matchesPlayed has a null value
C3_Witness ==
    /\ pc = "extracted_overview"
    /\ Len(overview_json.data.segments) = 1
    /\ overview_json.data.segments[1].stats["matchesPlayed"] = StatNullValue
    /\ Len(df_over.rows) = 1
    /\ df_over.rows[1].matchesPlayed = 0
    /\ df_over.rows[1].matchesWon = 3

(***************************************************************************)
(* Properties of the aggregates of main().                                 *)
(***************************************************************************)
\* The aggregate tables, each with the extracted rows it groups and its key
AggregateTables ==
    << [agg |-> maps_df_agg.rows, src |-> maps_df.rows, key |-> {"mapName"}],
       [agg |-> ops_df_agg_team.rows, src |-> ops_df.rows, key |-> {"operatorName", "side"}],
       [agg |-> ops_df_agg_player.rows, src |-> ops_df.rows,
        key |-> {"player", "operatorName", "side"}],
       [agg |-> df_overview_equipe.rows, src |-> overview_df.rows, key |-> {}] >>

SameKey(row, other, key) == \A c \in key : row[c] = other[c]

\* The sum of a column over the extracted rows with the key of an aggregate row
RECURSIVE SumOfGroup(_, _, _, _)
SumOfGroup(src, row, key, col) ==
    IF src = <<>> THEN 0
    ELSE (IF SameKey(Head(src), row, key) THEN Head(src)[col] ELSE 0)
         + SumOfGroup(Tail(src), row, key, col)

\* Whether the fraction q is num / den
IsQuotient(q, num, den) == q.d > 0 /\ q.n * den = num * q.d

\* C4: each row of the map aggregate, the two operator aggregates and the team
\* overview total holds the sums of matchesPlayed, matchesWon, kills and deaths over
\* the extracted rows with its key, and its winPct is 100 * won / played of those
\* sums, whatever winPct the extracted rows carry; every key has exactly one row.
C4_AggregatesSumAndRecompute ==
    \A t \in 1..Len(AggregateTables) :
        LET agg == AggregateTables[t].agg
            src == AggregateTables[t].src
            key == AggregateTables[t].key
        IN  /\ \A i \in 1..Len(agg) :
                 /\ \A col \in {"matchesPlayed", "matchesWon", "kills", "deaths"} :
                       agg[i][col] = SumOfGroup(src, agg[i], key, col)
                 /\ SumOfGroup(src, agg[i], key, "matchesPlayed") > 0 =>
                       IsQuotient(agg[i].winPct,
                                  100 * SumOfGroup(src, agg[i], key, "matchesWon"),
                                  SumOfGroup(src, agg[i], key, "matchesPlayed"))
                 /\ \A m \in 1..Len(agg) : SameKey(agg[m], agg[i], key) => m = i
            /\ agg # <<>> =>
                 \A n \in 1..Len(src) : \E i \in 1..Len(agg) : SameKey(src[n], agg[i], key)

\* Two players' Ash/attacker rows (2 played, 1 won, winPct 50 each) became one
\* team row with 4 played, 2 won and winPct 50, not 100
C4_Witness ==
    /\ Len(ops_df.rows) >= 2
    /\ \E i \in 1..Len(ops_df_agg_team.rows) :
         /\ ops_df_agg_team.rows[i].operatorName = S_Ash
         /\ ops_df_agg_team.rows[i].side = S_attacker
         /\ ops_df_agg_team.rows[i].matchesPlayed = 4
         /\ ops_df_agg_team.rows[i].matchesWon = 2
         /\ ops_df_agg_team.rows[i].winPct = FromInt(50)

\* C5: in every row of the map aggregate, the two operator aggregates and the team
\* overview total, kdRatio is the summed kills over the summed deaths when the
\* summed deaths is above 0, and 0 otherwise.
C5_KdRatioGuarded ==
    \A t \in 1..Len(AggregateTables) :
        LET agg == AggregateTables[t].agg
            src == AggregateTables[t].src
            key == AggregateTables[t].key
        IN  \A i \in 1..Len(agg) :
               LET kills == SumOfGroup(src, agg[i], key, "kills")
                   deaths == SumOfGroup(src, agg[i], key, "deaths")
               IN  IF deaths > 0 THEN IsQuotient(agg[i].kdRatio, kills, deaths)
                   ELSE agg[i].kdRatio = Zero

\* An aggregate row with kills but no deaths has kdRatio 0, and the team overview
\* total of a player without deaths too
C5_Witness ==
    /\ \E i \in 1..Len(ops_df_agg_player.rows) :
         /\ ops_df_agg_player.rows[i].deaths = 0
         /\ ops_df_agg_player.rows[i].kills > 0
         /\ ops_df_agg_player.rows[i].kdRatio = Zero
    /\ \E i \in 1..Len(maps_df_agg.rows) :
         /\ maps_df_agg.rows[i].deaths > 0
         /\ maps_df_agg.rows[i].kdRatio # Zero

\* The win percentages of the aggregates: those of AggregateTables and of the
\* side aggregates, each with the counts it is computed from
WinPercentages ==
    [i \in 1..Len(maps_df_agg.rows) |->
       [played |-> maps_df_agg.rows[i].matchesPlayed, won |-> maps_df_agg.rows[i].matchesWon,
        pct |-> maps_df_agg.rows[i].winPct]]
    \o [i \in 1..Len(ops_df_agg_team.rows) |->
       [played |-> ops_df_agg_team.rows[i].matchesPlayed,
        won |-> ops_df_agg_team.rows[i].matchesWon, pct |-> ops_df_agg_team.rows[i].winPct]]
    \o [i \in 1..Len(ops_df_agg_player.rows) |->
       [played |-> ops_df_agg_player.rows[i].matchesPlayed,
        won |-> ops_df_agg_player.rows[i].matchesWon,
        pct |-> ops_df_agg_player.rows[i].winPct]]
    \o [i \in 1..Len(df_overview_equipe.rows) |->
       [played |-> df_overview_equipe.rows[i].matchesPlayed,
        won |-> df_overview_equipe.rows[i].matchesWon,
        pct |-> df_overview_equipe.rows[i].winPct]]
    \o [i \in 1..Len(side_perf_team.rows) |->
       [played |-> side_perf_team.rows[i].matchesPlayed,
        won |-> side_perf_team.rows[i].matchesWon, pct |-> side_perf_team.rows[i].winPctSide]]
    \o [i \in 1..Len(sides_df_agg.rows) |->
       [played |-> sides_df_agg.rows[i].matchesPlayed,
        won |-> sides_df_agg.rows[i].matchesWon, pct |-> sides_df_agg.rows[i].winPctSide]]

InPercentRange(q) == q.d > 0 /\ 0 <= q.n /\ q.n <= 100 * q.d

\* C6 as claimed: in every aggregate row winPct lies in [0, 100] when matchesPlayed
\* is above 0 and is 0 when matchesPlayed is 0, whatever the files hold.
C6_WinPctInRange ==
    \A i \in 1..Len(WinPercentages) :
        IF WinPercentages[i].played > 0 THEN InPercentRange(WinPercentages[i].pct)
        ELSE WinPercentages[i].pct = Zero

\* C6 as amended: in every aggregate row winPct lies in [0, 100] when matchesPlayed
\* is above 0 and matchesWon is not above matchesPlayed, and is 0 when matchesPlayed
\* is 0.
C6_WinPctInRangeWhenWonWithinPlayed ==
    \A i \in 1..Len(WinPercentages) :
        /\ (WinPercentages[i].played > 0 /\ WinPercentages[i].won <= WinPercentages[i].played)
              => InPercentRange(WinPercentages[i].pct)
        /\ WinPercentages[i].played = 0 => WinPercentages[i].pct = Zero

\* A map with wins but no matches played has winPct 0, next to a map won once in
\* one match with winPct 100
C6_Witness ==
    /\ pc = "tab_sides"
    /\ \E i \in 1..Len(maps_df_agg.rows) :
         /\ maps_df_agg.rows[i].matchesPlayed = 0
         /\ maps_df_agg.rows[i].matchesWon = 2
         /\ maps_df_agg.rows[i].winPct = Zero
    /\ \E i \in 1..Len(maps_df_agg.rows) :
         /\ maps_df_agg.rows[i].matchesPlayed = 1
         /\ maps_df_agg.rows[i].matchesWon = 1
         /\ maps_df_agg.rows[i].winPct = FromInt(100)

\* The value a statistic of an overview file is extracted to
SourceValue(stats, key) == IF stats[key].kind = "value" THEN stats[key].value ELSE 0

\* The stats of the first overview segment of a player's overview file
FirstOverviewStats(player) ==
    LET segments == disk[player][1].data.segments
        first == CHOOSE i \in 1..Len(segments) :
                    /\ segments[i].type = "overview"
                    /\ \A m \in 1..(i - 1) : segments[m].type # "overview"
    IN  segments[first].stats

\* The rows of the aggregates computed by grouping, and of the side aggregates
GroupedRows ==
    maps_df_agg.rows \o ops_df_agg_team.rows \o ops_df_agg_player.rows
    \o side_perf_team.rows \o sides_df_agg.rows

LostIsPlayedLessWon(row) == row.matchesLost = row.matchesPlayed - row.matchesWon

\* C7 as claimed: in every table with a matchesLost field (the players' overview
\* rows, the team overview total, the map aggregate, both operator aggregates, the
\* side aggregate) matchesLost is matchesPlayed less matchesWon in every row.
C7_LostAlwaysDerived ==
    /\ \A i \in 1..Len(GroupedRows) : LostIsPlayedLessWon(GroupedRows[i])
    /\ \A i \in 1..Len(overview_df.rows) : LostIsPlayedLessWon(overview_df.rows[i])
    /\ \A i \in 1..Len(df_overview_equipe.rows) : LostIsPlayedLessWon(df_overview_equipe.rows[i])

\* C7 as amended: in the map aggregate, both operator aggregates and the side
\* aggregate matchesLost is matchesPlayed less matchesWon in every row; a player's
\* overview row holds the matchesLost statistic of the overview file (0 when it
\* has none), and the team overview total holds the sum of those.
C7_LostDerivedInGroupedTables ==
    /\ \A i \in 1..Len(GroupedRows) : LostIsPlayedLessWon(GroupedRows[i])
    /\ \A i \in 1..Len(overview_df.rows) :
          overview_df.rows[i].matchesLost =
             SourceValue(FirstOverviewStats(overview_df.rows[i].player), "matchesLost")
    /\ \A i \in 1..Len(df_overview_equipe.rows) :
          df_overview_equipe.rows[i].matchesLost =
             SumOfGroup(overview_df.rows, df_overview_equipe.rows[i], {}, "matchesLost")

\* A player with 50 matches, 30 won and no matchesLost statistic has an overview
\* row with matchesLost 0, next to map and side aggregates with derived losses
C7_Witness ==
    /\ \E i \in 1..Len(overview_df.rows) :
         /\ overview_df.rows[i].matchesPlayed = 50
         /\ overview_df.rows[i].matchesWon = 30
         /\ overview_df.rows[i].matchesLost = 0
    /\ df_overview_equipe.rows # <<>>
    /\ \E i \in 1..Len(maps_df_agg.rows) : maps_df_agg.rows[i].matchesLost = -1
    /\ \E i \in 1..Len(side_perf_team.rows) : side_perf_team.rows[i].matchesLost = 1

\* C8 as claimed: an overview file whose stats hold only the counts matchesPlayed,
\* matchesWon, kills and deaths (matchesPlayed and deaths above 0) is extracted to
\* a row with winPct = 100 * matchesWon / matchesPlayed and kdRatio = kills / deaths.
C8_OverviewRowDerivesRatios ==
    \A i \in 1..Len(overview_df.rows) :
        LET stats == FirstOverviewStats(overview_df.rows[i].player)
        IN  (/\ \A key \in {"matchesPlayed", "matchesWon", "kills", "deaths"} :
                   stats[key].kind = "value"
             /\ \A key \in {"matchesLost", "winPercentage", "kdRatio"} :
                   stats[key].kind = "absent"
             /\ stats["matchesPlayed"].value > 0 /\ stats["deaths"].value > 0)
            => /\ IsQuotient(overview_df.rows[i].winPct,
                             100 * stats["matchesWon"].value, stats["matchesPlayed"].value)
               /\ IsQuotient(overview_df.rows[i].kdRatio,
                             stats["kills"].value, stats["deaths"].value)

\* C8 as amended: such a file is extracted to a row with its four counts and
\* with winPct 0 and kdRatio 0, the values of the absent winPercentage and kdRatio
\* statistics; 100 * matchesWon / matchesPlayed and kills / deaths are the winPct
\* and kdRatio of the team overview total when that player is the only one.
C8_OverviewRowCopiesRatios ==
    \A i \in 1..Len(overview_df.rows) :
        LET stats == FirstOverviewStats(overview_df.rows[i].player)
        IN  (/\ \A key \in {"matchesPlayed", "matchesWon", "kills", "deaths"} :
                   stats[key].kind = "value"
             /\ \A key \in {"matchesLost", "winPercentage", "kdRatio"} :
                   stats[key].kind = "absent"
             /\ stats["matchesPlayed"].value > 0 /\ stats["deaths"].value > 0)
            => /\ \A key \in {"matchesPlayed", "matchesWon", "kills", "deaths"} :
                     overview_df.rows[i][key] = stats[key].value
               /\ overview_df.rows[i].winPct = Zero
               /\ overview_df.rows[i].kdRatio = Zero
               /\ (Len(overview_df.rows) = 1 /\ df_overview_equipe.rows # <<>>) =>
                     /\ IsQuotient(df_overview_equipe.rows[1].winPct,
                                   100 * stats["matchesWon"].value,
                                   stats["matchesPlayed"].value)
                     /\ IsQuotient(df_overview_equipe.rows[1].kdRatio,
                                   stats["kills"].value, stats["deaths"].value)

\* The player with 50 played, 30 won, 200 kills, 150 deaths alone: the row has
\* winPct 0 and kdRatio 0, the team total 60 and 4/3
C8_Witness ==
    /\ Len(overview_df.rows) = 1
    /\ overview_df.rows[1].matchesPlayed = 50
    /\ overview_df.rows[1].matchesWon = 30
    /\ overview_df.rows[1].kills = 200
    /\ overview_df.rows[1].deaths = 150
    /\ overview_df.rows[1].winPct = Zero
    /\ Len(df_overview_equipe.rows) = 1
    /\ df_overview_equipe.rows[1].winPct = FromInt(60)
    /\ df_overview_equipe.rows[1].kdRatio = [n |-> 4, d |-> 3]

(***************************************************************************)
(* Properties of the ranking functions.                                    *)
(***************************************************************************)
InResult(row, result, key) == \E i \in 1..Len(result) : SameKey(result[i], row, key)

OperatorKey == {"player", "operatorName", "side"}

\* The lists a ranking call has returned, each with the table it was given, its
\* key, the threshold and the limit of the list (0: none)
RankedLists ==
    IF pc = "ranked_maps"
    THEN << [result |-> melhores5.rows, input |-> maps_df_agg.rows, key |-> {"mapName"},
             threshold |-> min_map_matches, limit |-> 0],
            [result |-> piores5.rows, input |-> maps_df_agg.rows, key |-> {"mapName"},
             threshold |-> min_map_matches, limit |-> 0] >>
    ELSE IF pc = "ranked_operators"
    THEN << [result |-> mais_jogados.rows, input |-> ops_df_agg_player.rows,
             key |-> OperatorKey, threshold |-> min_operator_matches, limit |-> top_n],
            [result |-> maior_win.rows, input |-> ops_df_agg_player.rows,
             key |-> OperatorKey, threshold |-> min_operator_matches, limit |-> top_n],
            [result |-> maior_kpm.rows, input |-> ops_df_agg_player.rows,
             key |-> OperatorKey, threshold |-> min_operator_matches, limit |-> top_n] >>
    ELSE <<>>

\* C9 as claimed: in both lists of compute_best_worst_maps and the three lists of
\* compute_most_played_operators every row has matchesPlayed >= threshold, and
\* every row of the table given that is not in the list has matchesPlayed < threshold.
C9_ThresholdSplitsExactly ==
    \A t \in 1..Len(RankedLists) :
        LET l == RankedLists[t]
        IN  /\ \A i \in 1..Len(l.result) :
                 /\ l.result[i].matchesPlayed >= l.threshold
                 /\ InResult(l.result[i], l.input, l.key)
            /\ \A n \in 1..Len(l.input) :
                 ~InResult(l.input[n], l.result, l.key)
                    => l.input[n].matchesPlayed < l.threshold

\* C9 as amended: every row of those lists has matchesPlayed >= threshold; every
\* row of the table given that is not in a list of compute_best_worst_maps has
\* matchesPlayed < threshold, and one that is not in a list of
\* compute_most_played_operators has matchesPlayed < threshold or the list holds
\* top_n rows already.
C9_ThresholdSplitsUpToLimit ==
    \A t \in 1..Len(RankedLists) :
        LET l == RankedLists[t]
        IN  /\ \A i \in 1..Len(l.result) :
                 /\ l.result[i].matchesPlayed >= l.threshold
                 /\ InResult(l.result[i], l.input, l.key)
            /\ \A n \in 1..Len(l.input) :
                 ~InResult(l.input[n], l.result, l.key)
                    => \/ l.input[n].matchesPlayed < l.threshold
                       \/ l.limit > 0 /\ Len(l.result) = l.limit

\* Of three operators one is below the threshold, one is listed and one, though
\* above the threshold, is left out of the list of one row
C9_Witness ==
    /\ pc = "ranked_operators"
    /\ top_n = 1 /\ min_operator_matches = 1
    /\ Len(ops_df_agg_player.rows) = 3
    /\ Len(mais_jogados.rows) = 1
    /\ \E n \in 1..3 : ops_df_agg_player.rows[n].matchesPlayed < min_operator_matches
    /\ \E n \in 1..3 :
         /\ ops_df_agg_player.rows[n].matchesPlayed >= min_operator_matches
         /\ ~InResult(ops_df_agg_player.rows[n], mais_jogados.rows, OperatorKey)

AtMost(p, q) == p.n * q.d <= q.n * p.d

\* C10: of the lists of compute_best_worst_maps, the best has winPct from high to
\* low over every two adjacent rows, the worst from low to high, and both hold
\* the same rows.
C10_BestWorstOrdered ==
    pc = "ranked_maps" =>
        /\ \A i \in 1..(Len(melhores5.rows) - 1) :
              AtMost(melhores5.rows[i + 1].winPct, melhores5.rows[i].winPct)
        /\ \A i \in 1..(Len(piores5.rows) - 1) :
              AtMost(piores5.rows[i].winPct, piores5.rows[i + 1].winPct)
        /\ Len(melhores5.rows) = Len(piores5.rows)
        /\ {melhores5.rows[i] : i \in 1..Len(melhores5.rows)}
              = {piores5.rows[i] : i \in 1..Len(piores5.rows)}

\* Three maps with three win percentages, ranked both ways
C10_Witness ==
    /\ pc = "ranked_maps"
    /\ Len(melhores5.rows) = 3
    /\ ~AtMost(melhores5.rows[1].winPct, melhores5.rows[2].winPct)
    /\ ~AtMost(melhores5.rows[2].winPct, melhores5.rows[3].winPct)
    /\ piores5.rows[1] = melhores5.rows[3]
    /\ piores5.rows[3] = melhores5.rows[1]

(***************************************************************************)
(* Properties of the run as a whole.                                       *)
(***************************************************************************)
InLog(level, what) ==
    \E n \in 1..Len(log) : log[n].level = level /\ log[n].what = what

\* The base folder is absent or nobody is selected
Halting == InLog("error", "no base folder") \/ InLog("warning", "no player selected")

\* Nothing was loaded, extracted, aggregated, shown or reported
NothingDone ==
    /\ cache = <<>>
    /\ BlankLoaded /\ BlankFrames /\ BlankAggs /\ BlankTabs

\* C11: when the base folder is absent or no player is selected the run is
\* stopped with nothing loaded, extracted, aggregated, shown or reported; and
\* when load_player_data has been called, the base folder was found and the
\* selection is not empty.
C11_HaltsBeforeLoading ==
    /\ Halting => pc = "stopped" /\ NothingDone
    /\ ~NothingDone => ~Halting /\ jogadores_selecionados # <<>>
    /\ pc \in {"load", "aggregate"} => ~Halting /\ jogadores_selecionados # <<>>

\* The base folder is absent: the run is stopped before the selection
C11_Witness ==
    /\ pc = "stopped"
    /\ InLog("error", "no base folder")
    /\ jogadores_selecionados = <<>>
    /\ NothingDone

SelectedPlayers == {jogadores_selecionados[i] : i \in 1..Len(jogadores_selecionados)}

\* The files of a player, in the order of the triple of load_player_data
FileNames == <<"overview.json", "maps.json", "operators.json">>

\* A file of a selected player is missing
SelectedFileMissing == \E p \in SelectedPlayers : \E f \in 1..3 : ~disk[p][f].exists

\* How many warnings name this file of this player
WarningsOf(p, f) ==
    Cardinality({n \in 1..Len(log) : /\ log[n].level = "warning"
                                     /\ log[n].what = FileNames[f]
                                     /\ log[n].player = p})

\* The run was ended by st.stop() or by an exception
HaltedOrFaulted == pc \in {"stopped", "fault"}

\* C12: with players selected, of whom some lack files, the run is neither
\* stopped nor ended by an exception, and each missing file of a player already
\* loaded has exactly one warning naming the player, each file found none.
C12_MissingFilesNeverEndTheRun ==
    (jogadores_selecionados # <<>> /\ SelectedFileMissing) =>
        /\ ~HaltedOrFaulted
        /\ \A i \in 1..(k - 1) : \A f \in 1..3 :
              WarningsOf(jogadores_selecionados[i], f)
                 = (IF disk[jogadores_selecionados[i]][f].exists THEN 0 ELSE 1)

\* The triple that load_player_data returned for the player loaded last
ReturnedTriple == <<overview_json, maps_json, ops_json>>

\* The absence marker of each component of the triple
NoneOf == <<NoOverview, NoList, NoList>>

\* C13: each component of the triple returned by load_player_data is the
\* content of its file when the file exists and None when it does not, whatever
\* the other two files are.
C13_LoadComponentsIndependent ==
    k >= 2 =>
        LET player == jogadores_selecionados[k - 1]
        IN  \A f \in 1..3 :
              IF disk[player][f].exists
              THEN /\ ReturnedTriple[f].exists
                   /\ ReturnedTriple[f].data = disk[player][f].data
              ELSE ReturnedTriple[f] = NoneOf[f]

\* A player with maps.json only: None, the maps, None
C13_Witness ==
    /\ k >= 2
    /\ LET player == jogadores_selecionados[k - 1]
       IN  /\ ~disk[player][1].exists /\ disk[player][2].exists /\ ~disk[player][3].exists
           /\ overview_json = NoOverview
           /\ maps_json.exists /\ maps_json.data = disk[player][2].data
           /\ maps_json.data # <<>>
           /\ ops_json = NoList

(***************************************************************************)
(* Properties of the report.                                               *)
(***************************************************************************)
\* create_pdf_report has returned the document
ReportReturned == InLog("success", "report generated")

\* create_pdf_report has raised
ReportRaised == InLog("exception", "KeyError in create_pdf_report")

\* One of the tables handed to create_pdf_report has no rows
SomeAggregateEmpty == empty(maps_df_agg) \/ empty(ops_df_agg_player) \/ empty(sides_df_agg)

\* C14: create_pdf_report, called with a map aggregate, an operator aggregate
\* per player or a side aggregate without rows, returns the document and does
\* not raise.
C14_ReportToleratesEmptyAggregates ==
    ((ReportReturned \/ ReportRaised) /\ SomeAggregateEmpty) =>
        ReportReturned /\ ~ReportRaised /\ pc = "done"

(***************************************************************************)
(* Properties of the tabs.                                                 *)
(***************************************************************************)
\* Tab 2 has been drawn or has raised
MapTabDone ==
    pc \notin {"start", "select", "params", "load", "aggregate", "tab_maps"}

\* There are maps, none of them with min_map_matches matches
NoMapAboveThreshold ==
    /\ ~empty(maps_df_agg)
    /\ \A n \in 1..Len(maps_df_agg.rows) :
          maps_df_agg.rows[n].matchesPlayed < min_map_matches

\* C15: when there are maps and none has min_map_matches matches,
\* compute_best_worst_maps returns two empty tables and tab 2 is drawn without
\* an exception.
C15_MapTabToleratesEmptyRanking ==
    (MapTabDone /\ NoMapAboveThreshold) =>
        /\ empty(melhores5) /\ empty(piores5)
        /\ ~InLog("exception", "KeyError in the map tab")
        /\ pc # "fault"

(***************************************************************************)
(* Properties of two runs in one session.                                  *)
(***************************************************************************)
\* The run that ended had the inputs of this one
SameInputs ==
    /\ previous # <<>>
    /\ previous[1].jogadores_selecionados = jogadores_selecionados
    /\ previous[1].min_operator_matches = min_operator_matches
    /\ previous[1].min_map_matches = min_map_matches
    /\ previous[1].found_base_folder = ~InLog("error", "no base folder")

Eligible ==
    {n \in 1..Len(ops_df_agg_player.rows) :
        ops_df_agg_player.rows[n].matchesPlayed >= min_operator_matches}

\* The three lists, and the key each is ranked by: matches, win percentage,
\* kills per match (blank for a row without matches)
TopLists == <<mais_jogados.rows, maior_win.rows, maior_kpm.rows>>

RankKey(row, which) ==
    IF which = 1 THEN FromInt(row.matchesPlayed)
    ELSE IF which = 2 THEN row.winPct
    ELSE IF row.matchesPlayed = 0 THEN NA
    ELSE Ratio(row.kills, row.matchesPlayed)

\* A key that ranks below another; a blank key ranks below every number
RanksBelow(p, q) ==
    IF IsNA(q) THEN FALSE
    ELSE IF IsNA(p) THEN TRUE
    ELSE p.n * q.d < q.n * p.d

Smaller(a, b) == IF a < b THEN a ELSE b

\* C17: each of the three lists of compute_most_played_operators holds
\* min(top_n, eligible rows) different eligible rows, from the highest of its
\* own key downwards, and no row of it ranks below an eligible row left out.
C17_ThreeListsRankedIndependently ==
    pc = "ranked_operators" =>
        \A which \in 1..3 :
            LET l == TopLists[which]
                rows == ops_df_agg_player.rows
            IN  /\ Len(l) = Smaller(top_n, Cardinality(Eligible))
                /\ \A i \in 1..Len(l) :
                      \E n \in Eligible : SameKey(l[i], rows[n], OperatorKey)
                /\ \A i, m \in 1..Len(l) : i # m => ~SameKey(l[i], l[m], OperatorKey)
                /\ \A i \in 1..(Len(l) - 1) :
                      ~RanksBelow(RankKey(l[i], which), RankKey(l[i + 1], which))
                /\ \A n \in Eligible :
                      ~InResult(rows[n], l, OperatorKey) =>
                          \A i \in 1..Len(l) :
                              ~RanksBelow(RankKey(l[i], which), RankKey(rows[n], which))

\* Three eligible operators and lists of two: one operator is in all three
\* lists, the lists do not hold the same rows, and each leaves a row out
C17_Witness ==
    /\ pc = "ranked_operators"
    /\ top_n = 2 /\ Cardinality(Eligible) = 3
    /\ \E i \in 1..2 :
          /\ InResult(mais_jogados.rows[i], maior_win.rows, OperatorKey)
          /\ InResult(mais_jogados.rows[i], maior_kpm.rows, OperatorKey)
    /\ \E i \in 1..2 : ~InResult(mais_jogados.rows[i], maior_win.rows, OperatorKey)
    /\ \E i \in 1..2 : ~InResult(maior_win.rows[i], maior_kpm.rows, OperatorKey)

\* The tables that carry killsPerMatch
KillsPerMatchTables == <<ops_df_agg_team.rows, ops_df_agg_player.rows, maior_kpm.rows>>

\* C18: in the two operator aggregates and in the list ranked by it,
\* killsPerMatch is kills / matchesPlayed for a row with matches and blank, not
\* 0, for a row without; kdRatio of a row without deaths is 0.
C18_KillsPerMatchBlankWithoutMatches ==
    \A t \in 1..3 :
        \A i \in 1..Len(KillsPerMatchTables[t]) :
            LET row == KillsPerMatchTables[t][i]
            IN  /\ row.matchesPlayed > 0 =>
                      IsQuotient(row.killsPerMatch, row.kills, row.matchesPlayed)
                /\ row.matchesPlayed = 0 =>
                      IsNA(row.killsPerMatch) /\ row.killsPerMatch # Zero
                /\ row.deaths = 0 => row.kdRatio = Zero

\* A row with a kill, no match and no death is ranked last with a blank
\* killsPerMatch and a kdRatio of 0, after a row that has a quotient
C18_Witness ==
    /\ pc = "ranked_operators"
    /\ Len(maior_kpm.rows) = 2
    /\ maior_kpm.rows[1].matchesPlayed > 0
    /\ ~IsNA(maior_kpm.rows[1].killsPerMatch)
    /\ maior_kpm.rows[2].matchesPlayed = 0 /\ maior_kpm.rows[2].kills > 0
    /\ maior_kpm.rows[2].deaths = 0
    /\ IsNA(maior_kpm.rows[2].killsPerMatch)
    /\ maior_kpm.rows[2].kdRatio = Zero
    /\ \E i \in 1..Len(ops_df_agg_team.rows) : IsNA(ops_df_agg_team.rows[i].killsPerMatch)

\* The sides of the team operator aggregate
Sides == {ops_df_agg_team.rows[n].side : n \in 1..Len(ops_df_agg_team.rows)}

\* The sum of a column over the rows of the team operator aggregate of a side,
\* or over all of its rows
RECURSIVE SumOfSide(_, _, _)
SumOfSide(rws, side, col) ==
    IF rws = <<>> THEN 0
    ELSE (IF Head(rws).side = side THEN Head(rws)[col] ELSE 0)
         + SumOfSide(Tail(rws), side, col)

RECURSIVE SumOfColumn(_, _)
SumOfColumn(rws, col) ==
    IF rws = <<>> THEN 0 ELSE Head(rws)[col] + SumOfColumn(Tail(rws), col)

\* C19: compute_side_performance returns one row for each side of the team
\* operator aggregate, with the sums of matchesPlayed and matchesWon over the
\* side's rows, matchesLost = matchesPlayed - matchesWon, winPctSide =
\* 100 * matchesWon / matchesPlayed or 0 without matches, from the side with
\* the most matches downwards; the totals over the sides are those of the
\* aggregate.
C19_OneRowPerSide ==
    pc = "ranked_sides" =>
        LET rows == side_perf_team.rows
            team == ops_df_agg_team.rows
        IN  /\ {rows[i].side : i \in 1..Len(rows)} = Sides
            /\ Len(rows) = Cardinality(Sides)
            /\ \A i \in 1..Len(rows) :
                  /\ rows[i].matchesPlayed = SumOfSide(team, rows[i].side, "matchesPlayed")
                  /\ rows[i].matchesWon = SumOfSide(team, rows[i].side, "matchesWon")
                  /\ rows[i].matchesLost = rows[i].matchesPlayed - rows[i].matchesWon
                  /\ IF rows[i].matchesPlayed > 0
                     THEN IsQuotient(rows[i].winPctSide, 100 * rows[i].matchesWon,
                                     rows[i].matchesPlayed)
                     ELSE rows[i].winPctSide = Zero
            /\ \A i \in 1..(Len(rows) - 1) :
                  rows[i].matchesPlayed >= rows[i + 1].matchesPlayed
            /\ \A col \in {"matchesPlayed", "matchesWon"} :
                  SumOfColumn(rows, col) = SumOfColumn(team, col)

\* Three sides that groupby hands over as all, attacker, defender: the
\* attackers, with the most matches, come first and the side without matches,
\* with 0 as its percentage, last
C19_Witness ==
    /\ pc = "ranked_sides"
    /\ Len(side_perf_team.rows) = 3
    /\ Len(ops_df_agg_team.rows) = 3
    /\ side_perf_team.rows[1].side = S_attacker
    /\ side_perf_team.rows[2].side = S_defender
    /\ side_perf_team.rows[3].side = S_all
    /\ side_perf_team.rows[1].matchesPlayed > side_perf_team.rows[2].matchesPlayed
    /\ side_perf_team.rows[3].matchesPlayed = 0
    /\ side_perf_team.rows[3].winPctSide = Zero

\* The place of each section in the document
SectionOrder ==
    <<"title", "maps_summary", "sides_summary", "operators", "map_chart", "side_table",
      "overview">>

Place(section) == CHOOSE n \in 1..Len(SectionOrder) : SectionOrder[n] = section

IsOperatorHeading(e) == e.section = "operators" /\ e.kind = "heading"

IsOverviewLine(e) == e.section = "overview" /\ e.kind \in {"text", "no_data"}

\* The players of the elements of a list, in its order
PlayersOf(l) == [i \in 1..Len(l) |-> l[i].player]

\* The players with an overview.json, in the order of the roster
RECURSIVE WithOverview(_)
WithOverview(jogadores) ==
    IF jogadores = <<>> THEN <<>>
    ELSE (IF disk[Head(jogadores)][1].exists THEN <<Head(jogadores)>> ELSE <<>>)
         \o WithOverview(Tail(jogadores))

\* The sections that are in the document
SectionsOf(l) == {l[i].section : i \in 1..Len(l)}

\* C20: the document starts with the title and ends with the overview
\* section, its elements follow the order title, map summary, side summary,
\* operators, map chart, side table, overview, and the operator blocks are one
\* for each selected player, in the order of the selection.
C20_ReportSectionsInOrder ==
    ReportReturned =>
        /\ elements # <<>>
        /\ elements[1] = Element("title", "heading", <<>>)
        /\ \A i \in 1..(Len(elements) - 1) :
              Place(elements[i].section) <= Place(elements[i + 1].section)
        /\ elements[Len(elements)].section = "overview"
        /\ PlayersOf(SelectSeq(elements, IsOperatorHeading)) = jogadores_selecionados
        /\ PlayersOf(SelectSeq(elements, IsOverviewLine))
              = WithOverview(jogadores_selecionados)

\* A document for B and A with all seven sections, where B has operators
\* above the threshold and A has none
C20_Witness ==
    /\ ReportReturned
    /\ jogadores_selecionados = <<P_B, P_A>>
    /\ SectionsOf(elements) = {SectionOrder[n] : n \in 1..Len(SectionOrder)}
    /\ \E i \in 1..Len(elements) :
          elements[i] = Element("operators", "no_data", P_A)
    /\ \E i \in 1..Len(elements) :
          elements[i] = Element("operators", "image", P_B)
    /\ Len(SelectSeq(elements, IsOverviewLine)) = 2

(***************************************************************************)
(* Properties of the map names.                                            *)
(***************************************************************************)
\* The name parse_maps_to_df is to give an entry
NameOfEntry(entry) ==
    IF entry.metadata.mapName.present THEN entry.metadata.mapName.val
    ELSE IF entry.attributes.map.present THEN entry.attributes.map.val
    ELSE S_Unknown

MapNamesIn(rws) == {rws[n].mapName : n \in 1..Len(rws)}

\* The map rows that the report shows: its summary and its scatter
ShownMapRows ==
    UNION { {elements[i].shown[n] : n \in 1..Len(elements[i].shown)} :
              i \in {m \in 1..Len(elements) :
                        elements[m].section \in {"maps_summary", "map_chart"}} }

IsUnknownName(name) ==
    /\ Len(name) = 7
    /\ name[1] \in {"u", "U"} /\ name[2] \in {"n", "N"} /\ name[3] \in {"k", "K"}
    /\ name[4] \in {"n", "N"} /\ name[5] \in {"o", "O"} /\ name[6] \in {"w", "W"}
    /\ name[7] \in {"n", "N"}

\* C21: parse_maps_to_df returns a row for each entry, named by metadata
\* mapName, else by attributes map, else "Unknown"; every extracted name, that
\* one included, has its row in the map aggregate; and no map row shown in the
\* report's map summary or map scatter is named "unknown" in any case.
C21_UnknownMapKeptUntilReport ==
    /\ (k >= 2 /\ maps_json.exists) =>
          /\ Len(df_maps.rows) = Len(maps_json.data)
          /\ \A i \in 1..Len(df_maps.rows) :
                df_maps.rows[i].mapName = NameOfEntry(maps_json.data[i])
    /\ MapNamesIn(maps_df.rows) = MapNamesIn(maps_df_agg.rows)
    /\ \A row \in ShownMapRows : ~IsUnknownName(row.mapName)

\* A nameless map is extracted as "Unknown", is in the aggregate and in the
\* best list of tab 2, and the report shows the other map only
C21_Witness ==
    /\ ReportReturned
    /\ S_Unknown \in MapNamesIn(maps_df_agg.rows)
    /\ S_Unknown \in MapNamesIn(melhores5.rows)
    /\ S_Unknown \in MapNamesIn(piores5.rows)
    /\ MapNamesIn(rep_maps.rows) = {S_Bank}
    /\ \E row \in ShownMapRows : row.mapName = S_Bank

(***************************************************************************)
(* Properties of what the functions leave alone.                           *)
(***************************************************************************)
\* The aggregates have been built
Aggregated == pc \notin {"start", "select", "params", "load", "aggregate"}

\* The map rows of the aggregate with fewer matches than min_map_matches
BelowMapThreshold ==
    {n \in 1..Len(maps_df_agg.rows) : maps_df_agg.rows[n].matchesPlayed < min_map_matches}

\* C22: once built, the aggregate tables hold what the aggregation made of the
\* concatenated rows, whichever of compute_best_worst_maps,
\* compute_side_performance, compute_most_played_operators and
\* create_pdf_report have returned since; a map below the threshold is in
\* neither ranked list; and the raw records are what was read from the files.
C22_InputsLeftUnchanged ==
    /\ Aggregated =>
          /\ maps_df_agg = aggregate_maps(maps_df)
          /\ ops_df_agg_team = aggregate_ops_team(ops_df)
          /\ ops_df_agg_player = aggregate_ops_player(ops_df)
          /\ df_overview_equipe = overview_equipe(overview_df)
          /\ \A n \in BelowMapThreshold :
                /\ ~InResult(maps_df_agg.rows[n], melhores5.rows, {"mapName"})
                /\ ~InResult(maps_df_agg.rows[n], piores5.rows, {"mapName"})
    /\ \A i \in 1..Len(overview_raw_by_player) :
          overview_raw_by_player[i].overview_json
             = disk[overview_raw_by_player[i].player][1].data
    /\ \A p \in DOMAIN cache :
          \A f \in 1..3 : cache[p][f].exists => cache[p][f].data = disk[p][f].data

\* After the report, a map with one match is below the threshold of two and in
\* neither list of tab 2, yet in the aggregate, which holds more rows than the
\* report's filtered copy
C22_Witness ==
    /\ ReportReturned
    /\ min_map_matches = 2
    /\ BelowMapThreshold # {}
    /\ ~empty(melhores5)
    /\ Len(melhores5.rows) < Len(maps_df_agg.rows)
    /\ Len(rep_maps.rows) < Len(maps_df_agg.rows)
    /\ ~empty(mais_jogados)
    /\ ~empty(side_perf_team)

(***************************************************************************)
(* Properties of the overview segment.                                     *)
(***************************************************************************)
\* The player has an overview.json with a segment of type "overview"
HasOverviewSegment(player) ==
    /\ disk[player][1].exists
    /\ \E i \in 1..Len(disk[player][1].data.segments) :
          disk[player][1].data.segments[i].type = "overview"

\* The selected players that have such a segment, in the order of the roster
RECURSIVE WithOverviewSegment(_)
WithOverviewSegment(jogadores) ==
    IF jogadores = <<>> THEN <<>>
    ELSE (IF HasOverviewSegment(Head(jogadores)) THEN <<Head(jogadores)>> ELSE <<>>)
         \o WithOverviewSegment(Tail(jogadores))

\* The value of a stats entry, 0 when it holds none
ValueOrZero(entry) == IF entry.kind = "value" THEN entry.value ELSE 0

\* The display names of the playstyle entries of a stats object
PlaystyleNames(stats) ==
    {stats[PlaystyleKeys[i]].displayName :
        i \in {n \in 1..Len(PlaystyleKeys) : PlaystyleKeys[n] \in DOMAIN stats}}

\* Tab 5 has reached its end
InsightsShown ==
    pc \in {"button", "done"} \/ InLog("exception", "KeyError in create_pdf_report")

\* C23: the overview table has one row for each selected player whose
\* overview.json has an "overview" segment, taken from the first such segment,
\* and none for the others, and the team total is there when the table has a
\* row; extract_playstyles returns the playstyles of that first segment, most
\* used first, and an empty list for a file without such a segment.
C23_FirstOverviewSegmentOrEmpty ==
    /\ Aggregated =>
          /\ PlayersOf(overview_df.rows) = WithOverviewSegment(jogadores_selecionados)
          /\ \A i \in 1..Len(overview_df.rows) :
                LET stats == FirstOverviewStats(overview_df.rows[i].player)
                IN  /\ overview_df.rows[i].matchesPlayed = ValueOrZero(stats.matchesPlayed)
                    /\ overview_df.rows[i].kills = ValueOrZero(stats.kills)
          /\ empty(df_overview_equipe) <=> empty(overview_df)
    /\ InsightsShown =>
          /\ PlayersOf(playstyles) = WithOverview(jogadores_selecionados)
          /\ \A i \in 1..Len(playstyles) :
                LET l == playstyles[i].playstyles
                IN  IF HasOverviewSegment(playstyles[i].player)
                    THEN /\ {l[n][1] : n \in 1..Len(l)}
                            = PlaystyleNames(FirstOverviewStats(playstyles[i].player))
                         /\ Len(l) = Cardinality(
                               PlaystyleNames(FirstOverviewStats(playstyles[i].player)))
                         /\ \A n \in 1..(Len(l) - 1) : l[n][2] >= l[n + 1][2]
                    ELSE l = <<>>

\* A has no "overview" segment and B has two: the overview table and the team
\* total hold B's row only, A has no playstyle and B those of its first
\* segment, the one of 60 ahead of the one of 40
C23_Witness ==
    /\ InsightsShown
    /\ jogadores_selecionados = <<P_A, P_B>>
    /\ disk[P_A][1].exists /\ ~HasOverviewSegment(P_A)
    /\ PlayersOf(overview_df.rows) = <<P_B>>
    /\ overview_df.rows[1].matchesPlayed = 50
    /\ ~empty(df_overview_equipe)
    /\ Len(playstyles) = 2
    /\ playstyles[1].playstyles = <<>>
    /\ Len(playstyles[2].playstyles) = 2
    /\ playstyles[2].playstyles[1][2] = 60
    /\ playstyles[2].playstyles[2][2] = 40

(***************************************************************************)
(* Properties of what the report and tab 5 highlight.                      *)
(***************************************************************************)
\* The operator rows of a player at or above the operator threshold, and the
\* map rows at or above the map threshold, as the report is to use them
EligibleOperators(player) ==
    {n \in 1..Len(ops_df_agg_player.rows) :
        /\ ops_df_agg_player.rows[n].player = player
        /\ ops_df_agg_player.rows[n].matchesPlayed >= min_operator_matches
        /\ ~IsUnknownName(ops_df_agg_player.rows[n].operatorName)}

EligibleMaps ==
    {n \in 1..Len(maps_df_agg.rows) :
        /\ maps_df_agg.rows[n].matchesPlayed >= min_map_matches
        /\ ~IsUnknownName(maps_df_agg.rows[n].mapName)}

\* The elements of the report of a section and a kind, for a player or for the team
ElementsOf(section, kind, who) ==
    SelectSeq(elements, LAMBDA e : e.section = section /\ e.kind = kind /\ e.player = who)

\* The map rows at or above the map threshold, whatever their name
MapsAboveThreshold ==
    {n \in 1..Len(maps_df_agg.rows) : maps_df_agg.rows[n].matchesPlayed >= min_map_matches}

\* Each selected player with an eligible operator has one text with a top and
\* a worst operator, both eligible rows of that player, the top with a winPct
\* no eligible row of the player exceeds and the worst with one none falls
\* below, and a player without has a "no data" line and no text; the map
\* summary shows two of the given maps, with the highest and the lowest winPct
\* among them.
HighlightsExtremes(maps) ==
    /\ \A player \in SelectedPlayers :
          LET texts == ElementsOf("operators", "text", player)
              blanks == ElementsOf("operators", "no_data", player)
              rows == ops_df_agg_player.rows
          IN  IF EligibleOperators(player) = {}
              THEN Len(texts) = 0 /\ Len(blanks) = 1
              ELSE /\ Len(texts) = 1 /\ Len(blanks) = 0
                   /\ Len(texts[1].shown) = 2
                   /\ \A m \in 1..2 :
                         \E n \in EligibleOperators(player) :
                            /\ SameKey(texts[1].shown[m], rows[n], OperatorKey)
                            /\ texts[1].shown[m].winPct = rows[n].winPct
                   /\ \A n \in EligibleOperators(player) :
                         /\ AtMost(rows[n].winPct, texts[1].shown[1].winPct)
                         /\ AtMost(texts[1].shown[2].winPct, rows[n].winPct)
    /\ LET texts == ElementsOf("maps_summary", "text", <<>>)
           rows == maps_df_agg.rows
       IN  IF maps = {} THEN Len(texts) = 0
           ELSE /\ Len(texts) = 1
                /\ Len(texts[1].shown) = 2
                /\ \A m \in 1..2 :
                      \E n \in maps :
                         /\ texts[1].shown[m].mapName = rows[n].mapName
                         /\ texts[1].shown[m].winPct = rows[n].winPct
                /\ \A n \in maps :
                      /\ AtMost(rows[n].winPct, texts[1].shown[1].winPct)
                      /\ AtMost(texts[1].shown[2].winPct, rows[n].winPct)

\* C24 as stated: the report highlights, for each player, the operators with
\* the highest and the lowest winPct among the player's rows at or above the
\* operator threshold, and for the team the maps with the highest and the
\* lowest winPct among the maps at or above the map threshold.
C24_ExtremesAmongAllMaps == ReportReturned => HighlightsExtremes(MapsAboveThreshold)

\* C24, amended: the report highlights, for each player, the operators with
\* the highest and the lowest winPct among the player's rows at or above the
\* operator threshold, and for the team the maps with the highest and the
\* lowest winPct among the maps at or above the map threshold that are not
\* named "unknown" in any case.
C24_ReportHighlightsExtremes == ReportReturned => HighlightsExtremes(EligibleMaps)

\* A report where a player has two eligible operators and the team two
\* eligible maps, each pair with different win percentages
C24_Witness ==
    /\ ReportReturned
    /\ \E player \in SelectedPlayers :
          /\ Cardinality(EligibleOperators(player)) >= 2
          /\ LET shown == ElementsOf("operators", "text", player)[1].shown
             IN  /\ ~AtMost(shown[1].winPct, shown[2].winPct)
                 /\ shown[1].operatorName # shown[2].operatorName
                    \/ shown[1].side # shown[2].side
    /\ Cardinality(EligibleMaps) >= 2
    /\ LET shown == ElementsOf("maps_summary", "text", <<>>)[1].shown
       IN  ~AtMost(shown[1].winPct, shown[2].winPct)

(***************************************************************************)
(* Properties of the best side of tab 5.                                    *)
(***************************************************************************)
\* Tab 5 has computed the team's side performance from a team aggregate with
\* rows
BestSideComputed ==
    /\ ~empty(ops_df_agg_team)
    /\ pc = "button" \/ ReportReturned \/ ReportRaised

\* The row is a side with matches played whose winPctSide no such side exceeds
IsBestSide(row) ==
    /\ row.matchesPlayed > 0
    /\ \E n \in 1..Len(side_perf_team.rows) : side_perf_team.rows[n] = row
    /\ \A n \in 1..Len(side_perf_team.rows) :
          side_perf_team.rows[n].matchesPlayed > 0
             => AtMost(side_perf_team.rows[n].winPctSide, row.winPctSide)

\* C25: tab 5 never raises on the best side: with a non-empty team operator
\* aggregate it names a side with matchesPlayed > 0 and the highest winPctSide
\* among such sides, or names none when every side has matchesPlayed = 0.
C25_BestSideNeverFaults ==
    /\ ~InLog("exception", "IndexError in the insights tab")
    /\ BestSideComputed =>
          IF rows_played(side_perf_team.rows) = <<>> THEN best_side_row = <<>>
          ELSE Len(best_side_row) = 1 /\ IsBestSide(best_side_row[1])

\* What does hold: the best side is named as stated whenever a side has
\* matches played, and tab 5 raises exactly when none has.
BestSideWhenPlayed ==
    /\ BestSideComputed =>
          /\ rows_played(side_perf_team.rows) # <<>>
          /\ Len(best_side_row) = 1 /\ IsBestSide(best_side_row[1])
    /\ InLog("exception", "IndexError in the insights tab") =>
          /\ pc = "fault"
          /\ ~empty(ops_df_agg_team)
          /\ \A n \in 1..Len(ops_df_agg_team.rows) : ops_df_agg_team.rows[n].matchesPlayed = 0

(***************************************************************************)
(* Properties of the kills per match of the highlighted operators.         *)
(***************************************************************************)
\* The texts of the report that name a top and a worst operator
OperatorTexts ==
    SelectSeq(elements, LAMBDA e : e.section = "operators" /\ e.kind = "text")

\* The quotient is of a division by a number other than 0
Divided(quotient) == quotient.d # 0

\* C26: the thresholds being 1 or more, every operator the report names as top
\* or worst and every best operator per side of tab 5 has matchesPlayed >= 1,
\* and the kills per match shown for it is kills divided by that number, never
\* a division by 0.
C26_KillsPerMatchDividesByPlayed ==
    /\ Len(OperatorTexts) + Len(melhores_ops) > 0
          => min_operator_matches >= 1 /\ min_map_matches >= 1
    /\ \A n \in 1..Len(OperatorTexts) :
          \A m \in 1..Len(OperatorTexts[n].shown) :
             LET row == OperatorTexts[n].shown[m]
             IN  /\ row.matchesPlayed >= 1
                 /\ Divided(row.shownKillsPerMatch)
                 /\ row.shownKillsPerMatch = Ratio(row.kills, row.matchesPlayed)
    /\ \A n \in 1..Len(melhores_ops) :
          /\ melhores_ops[n].matchesPlayed >= 1
          /\ Divided(melhores_ops[n].killsPerMatch)

\* A report with a top operator and tab 5 with a best operator per side, for
\* a team that has an operator without matches
C26_Witness ==
    /\ ReportReturned
    /\ Len(OperatorTexts) >= 1
    /\ Len(melhores_ops) >= 1
    /\ \E n \in 1..Len(ops_df_agg_player.rows) : ops_df_agg_player.rows[n].matchesPlayed = 0

(***************************************************************************)
(* Properties of the side table of the report.                             *)
(***************************************************************************)
\* The tables of the sides in the report
SideTables ==
    SelectSeq(elements, LAMBDA e : e.section = "side_table" /\ e.kind = "table")

\* The kills of the operators of the team on a side
KillsOnSide(side) == SumOfColumn(rows_with(ops_df_agg_team.rows, "side", side), "kills")

\* C27: the rows of the side aggregate handed to the report hold side,
\* matchesPlayed, matchesWon, matchesLost and winPctSide and nothing else, and
\* every line of the side table of the report shows kills 0, deaths 0 and a K/D
\* of 0.00, whatever the kills and deaths of the operators are.
C27_SideTableShowsNoKills ==
    /\ \A n \in 1..Len(sides_df_agg.rows) : DOMAIN sides_df_agg.rows[n] = SideColumns
    /\ \A n \in 1..Len(SideTables) :
          /\ Len(SideTables[n].shown) = Len(rep_sides.rows)
          /\ \A m \in 1..Len(SideTables[n].shown) :
                LET line == SideTables[n].shown[m]
                IN  /\ line.side = rep_sides.rows[m].side
                    /\ line.matchesPlayed = rep_sides.rows[m].matchesPlayed
                    /\ line.kills = 0
                    /\ line.deaths = 0
                    /\ line.kdRatio = 0

\* A report whose side table has a line for each of two sides, on one of which
\* the operators of the team have kills
C27_Witness ==
    /\ ReportReturned
    /\ Len(SideTables) = 1
    /\ Len(SideTables[1].shown) >= 2
    /\ \E m \in 1..Len(SideTables[1].shown) : KillsOnSide(SideTables[1].shown[m].side) > 0

============================================================================
